---- MODULE Spec2Model ----
(***************************************************************************)
(* Model of the orz media watcher.                                         *)
(*                                                                         *)
(*   Spec      the debounced event queue of orzy_watcher.py: the observer  *)
(*             thread running ChangeHandler.on_any_event, the Timer        *)
(*             threads running ChangeHandler.queue_item, the processing    *)
(*             queue, the worker loop and main's shutdown.                 *)
(*   SpecStab  utils.wait_for_stability / utils.get_snapshot polling one   *)
(*             item while the filesystem changes under it.                 *)
(*                                                                         *)
(* A path is the sequence of its components ("/watch/B/x.mkv" is           *)
(* <<"watch", "B", "x.mkv">>).  Both bodies under `with self.lock` are     *)
(* single actions: the lock makes them mutually exclusive, and nothing     *)
(* outside the lock writes self.timers.                                    *)
(***************************************************************************)
EXTENDS Integers, Sequences, FiniteSets, TLC

\* config.py: PROCESS_DELAY = int(os.getenv('PROCESS_DELAY', '5')), the default.
PROCESS_DELAY == 5

\* config.py: BUNDLE_STABILITY_CHECK_INTERVAL, default 2.
BUNDLE_STABILITY_CHECK_INTERVAL == 2

\* config.py: BUNDLE_STABILITY_TIMEOUT, default 300.
BUNDLE_STABILITY_TIMEOUT == 300

\* Events accepted (Timer objects created) in one run.
MaxEvents == 3

\* Largest size, in bytes, of a file of the polled item.
MaxSize == 1

\* Seconds a poll may take beyond the sleep of the check interval.
MaxJitter == 1

\* config.py: SOURCE_DIR = os.getenv('SOURCE_DIR', '/watch')
SOURCE_DIR == <<"watch">>

\* The sentinel main puts on the queue (None).
None == <<>>

\* No event / no item.
NoPath == <<"-">>

-----------------------------------------------------------------------------
(* Paths of the model's filesystem.                                        *)

\* Paths the notification source reports events for.
EventPaths ==
    { <<"watch", "a.mkv">>,
      <<"watch", "B">>,
      <<"watch", "B", "x.mkv">>,
      <<"watch", "B", "sub", "y.srt">>,
      <<"watch", "..cache">>,
      <<"other", "c.mkv">> }

\* Every non-empty prefix of an event path.
AllPaths == UNION { { SubSeq(p, 1, n) : n \in 1..Len(p) } : p \in EventPaths }

IsPrefix(s, t) == Len(s) <= Len(t) /\ SubSeq(t, 1, Len(s)) = s

\* Directories: the paths with something below them.
DirPaths == { p \in AllPaths : \E q \in AllPaths : q # p /\ IsPrefix(p, q) }

\* Paths that exist throughout (outside the watch root, and a dot-dot file).
StaticPaths == { <<"other">>, <<"other", "c.mkv">>, <<"watch">>, <<"watch", "..cache">> }

\* What is dropped into and removed from the watch directory: a file, or a
\* directory with everything in it.
Drops == { p \in AllPaths \ StaticPaths : Len(p) = Len(SOURCE_DIR) + 1 }

\* Component names whose text starts with "..".
DotDotNames == { "..", "..cache" }

VARIABLES
    fs,        \* the dropped items that exist on disk
    hpc,       \* observer thread: "idle", or "lock" (waiting for self.lock)
    ev,        \* item_path computed by the on_any_event in flight
    timers,    \* self.timers: item path -> index of its Timer (0: no entry)
    nev,       \* item path -> number of Timer objects created for it
    tstate,    \* item path -> Timer index -> state of that Timer thread
    tage,      \* item path -> Timer index -> seconds waited, up to PROCESS_DELAY
    queue,     \* processing_queue.queue
    wpc,       \* worker thread: "get", "stability", "dispatch", "stopped", "crashed"
    witem,     \* worker: item_path of the current iteration
    wlast,     \* worker: how the last finished iteration ended
    wstab,     \* history: what wait_for_stability gave this iteration: "none", "true", "false", "raised"
    wcall,     \* history: the processor called this iteration: "none", "bundle", "file"
    wbefore,   \* history: items put before the sentinel whose iteration has not ended
    wdrained,  \* history: iterations ended since the sentinel was put
    mpc,       \* main thread: "running", "joining"
    sinceArr,  \* history: seconds since the item's last Timer was started, up to PROCESS_DELAY
    tnew,      \* history: the Timer's event came PROCESS_DELAY or more after the previous one
    tres,      \* history: what the Timer's callback did: "none", "put", "dup", "gone"
    lastEv,    \* history: src_path of the last event delivered (SpecKey)
    disk,      \* SpecStab: the polled item on disk
    slast,     \* wait_for_stability: last_snapshot
    selapsed,  \* wait_for_stability: time.time() - start_time at the loop test
    sres,      \* wait_for_stability: "none" while it runs, then "true", "false", "raised"
    scur,      \* history: the snapshot the last get_snapshot call returned
    spolls,    \* history: get_snapshot calls made, up to 2
    sseen,     \* history: the item has existed at some time during the call
    svanished  \* history: a file vanished under the last get_snapshot call

watchVars == << fs, hpc, ev, timers, nev, tstate, tage, queue, wpc, witem, wlast, mpc,
                sinceArr, tnew, tres, lastEv, wstab, wcall, wbefore, wdrained >>

stabVars == << disk, slast, selapsed, sres, scur, spolls, sseen, svanished >>

VARIABLES
    DELETE_SOURCE_FILES,  \* config.DELETE_SOURCE_FILES
    psrc,                 \* the item under the watch root, NoItem when there is none
    dest,                 \* the destination: path -> content of the file there
    ppc,                  \* processor: "idle", "repair", "decide", "finish", "done"
    pitem,                \* the item the processor was called on
    video_files,          \* the main videos still to be handled
    extra_files,          \* the extras of the bundle
    subtitle_files,       \* the subtitles of the bundle
    final_media_paths,    \* source video -> its final destination path
    pflow,                \* metadata['type']: "movie", "series", "none"
    phint,                \* media_type_hint of the run: "movie", "series", "none"
    pfault,               \* history: how the lookup service failed in the run, "none" if it did not
    pout,                 \* how the run ended: "novideo", "nometa", "raised", "movie", "series"
    nruns,                \* history: runs of the processor started
    dstart,               \* history: the destination when the run started
    prepeat               \* history: the run handles the item of the run before it

procVars == << DELETE_SOURCE_FILES, psrc, dest, ppc, pitem, video_files, extra_files,
               subtitle_files, final_media_paths, pflow, phint, pfault, pout, nruns,
               dstart, prepeat >>

VARIABLES
    mtitle,    \* search_tvdb_metadata: parsed_info["title"]
    mtype,     \* media_type
    mreply,    \* what the lookup service does when asked
    mscores,   \* name -> the score the fuzzy matcher gives it against the title
    mresult,   \* the value returned
    mqueried,  \* history: tvdb.search was called
    mstep      \* "idle", "call", "returned"

metaVars == << mtitle, mtype, mreply, mscores, mresult, mqueried, mstep >>

VARIABLES
    qname,     \* get_quality_score: the name of the file
    qexists,   \* the file exists
    qprobe,    \* what ffprobe does on the file: a height, or a failure
    qresult,   \* the value returned
    qpc        \* "idle", "call", "returned"

scoreVars == << qname, qexists, qprobe, qresult, qpc >>

VARIABLES
    fname,     \* parse_filename: the name given, a sequence of atoms
    fresult,   \* the dictionary returned
    fpc        \* "idle", "call", "returned"

parseVars == << fname, fresult, fpc >>

fnVars == << metaVars, scoreVars, parseVars >>

vars == << watchVars, stabVars, procVars, fnVars >>

-----------------------------------------------------------------------------
(* Filesystem primitives.                                                  *)

Exists(p) == p \in StaticPaths \/ \E d \in fs : IsPrefix(d, p)
IsDir(p) == Exists(p) /\ p \in DirPaths
IsFile(p) == Exists(p) /\ p \notin DirPaths

\* A file or a directory tree is dropped into the watch directory.
FsCreate(d) ==
    /\ d \notin fs
    /\ fs' = fs \cup {d}

\* A file or a whole tree disappears.
FsRemove(d) ==
    /\ d \in fs
    /\ fs' = fs \ {d}

-----------------------------------------------------------------------------
(* ChangeHandler.on_any_event                                              *)

RECURSIVE SumNev(_)
SumNev(S) ==
    IF S = {} THEN 0
    ELSE LET k == CHOOSE x \in S : TRUE IN nev[k] + SumNev(S \ {k})

RECURSIVE CommonLen(_, _)
\* Length of the common prefix of two component lists (os.path.commonprefix).
CommonLen(s, t) ==
    IF s = <<>> \/ t = <<>> \/ Head(s) # Head(t) THEN 0
    ELSE 1 + CommonLen(Tail(s), Tail(t))

\* os.path.relpath(path, start): ".." for each component of start that is
\* not shared, then the rest of path; "." when nothing is left.
RelPath(path, start) ==
    LET i == CommonLen(start, path)
        rel == [ j \in 1..(Len(start) - i) |-> ".." ] \o SubSeq(path, i + 1, Len(path))
    IN  IF rel = <<>> THEN <<".">> ELSE rel

\* relative_path.startswith('..')
StartsWithDotDot(rel) == Head(rel) \in DotDotNames

ItemPathParentDir(src, rel) ==
    IF Len(rel) > 1 THEN SubSeq(src, 1, Len(src) - 1) ELSE src

\* Lines 50-54: the item a relative path belongs to.
ItemPath(src, rel) ==
    IF Len(rel) > 1 THEN SOURCE_DIR \o <<Head(rel)>> ELSE src

\* Lines 45-48: the early returns.
Accepts(src, isdir) ==
    /\ ~isdir
    /\ Exists(src)
    /\ ~StartsWithDotDot(RelPath(src, SOURCE_DIR))

\* Number of events accepted so far.
Accepted == (IF hpc = "lock" THEN 1 ELSE 0) + SumNev(AllPaths)

\* The observer delivers an event: lines 45-54, up to the lock.
OnAnyEvent(src, isdir) ==
    /\ mpc = "running"
    /\ hpc = "idle"
    /\ IF Accepts(src, isdir)
       THEN LET item == ItemPath(src, RelPath(src, SOURCE_DIR)) IN
            /\ Accepted < MaxEvents
            /\ hpc' = "lock"
            /\ ev' = item
       ELSE UNCHANGED << hpc, ev >>
    /\ UNCHANGED << fs, timers, nev, tstate, tage, queue, wpc, witem, wlast, mpc,
                    sinceArr, tnew, tres, wstab, wcall, wbefore, wdrained >>

\* Timer.cancel(): a Timer still waiting never calls back; one that has
\* already passed its finished-check calls back all the same.
Cancelled(st) ==
    CASE st = "waiting" -> "cancelled"
      [] st = "firing"  -> "zombie"
      [] OTHER          -> st

\* Lines 56-60, under the lock: cancel the old Timer, start a new one.
HandlerLocked ==
    /\ hpc = "lock"
    /\ LET item == ev
           old == timers[item]
           new == nev[item] + 1
           st1 == IF old # 0
                  THEN [tstate[item] EXCEPT ![old] = Cancelled(@)]
                  ELSE tstate[item]
       IN  /\ tstate' = [tstate EXCEPT ![item] = [st1 EXCEPT ![new] = "waiting"]]
           /\ tage' = [tage EXCEPT ![item] =
                         [i \in 1..MaxEvents |->
                            IF i = new \/ (i = old /\ tstate[item][old] = "waiting")
                            THEN 0 ELSE @[i]]]
           /\ timers' = [timers EXCEPT ![item] = new]
           /\ nev' = [nev EXCEPT ![item] = new]
           /\ tnew' = [tnew EXCEPT ![item][new] =
                          nev[item] = 0 \/ sinceArr[item] >= PROCESS_DELAY]
           /\ sinceArr' = [sinceArr EXCEPT ![item] = 0]
    /\ hpc' = "idle"
    /\ ev' = NoPath
    /\ UNCHANGED << fs, queue, wpc, witem, wlast, mpc, tres, lastEv, wstab, wcall, wbefore, wdrained >>

\* threading.Timer.run: the wait of PROCESS_DELAY seconds is over and the
\* Timer was not cancelled, so it goes on to call queue_item(item_path).
TimerExpire(k, i) ==
    /\ tstate[k][i] = "waiting"
    /\ tage[k][i] >= PROCESS_DELAY
    /\ tstate' = [tstate EXCEPT ![k][i] = "firing"]
    /\ UNCHANGED << fs, hpc, ev, timers, nev, tage, queue, wpc, witem, wlast, mpc,
                    sinceArr, tnew, tres, lastEv, wstab, wcall, wbefore, wdrained >>

ShouldQueueNoMembership(k) == Exists(k)

ShouldQueueUnlessInFlight(k) ==
    /\ Exists(k) /\ \A j \in 1..Len(queue) : queue[j] # k
    /\ ~(witem = k /\ wpc \in {"stability", "dispatch"})

\* Line 67: os.path.exists(item_path) and item_path not in list(self.queue.queue)
ShouldQueue(k) ==
    Exists(k) /\ \A j \in 1..Len(queue) : queue[j] # k

TimersPopWhenQueued(k) == IF ShouldQueue(k) THEN [timers EXCEPT ![k] = 0] ELSE timers

\* Line 70: self.timers.pop(item_path, None)
TimersPop(k) == [timers EXCEPT ![k] = 0]

\* Lines 64-70: the Timer's callback, under the lock.
QueueItem(k, i) ==
    /\ tstate[k][i] \in {"firing", "zombie"}
    /\ queue' = IF ShouldQueue(k) THEN Append(queue, k) ELSE queue
    /\ timers' = TimersPop(k)
    /\ tstate' = [tstate EXCEPT ![k][i] = "done"]
    /\ tage' = [tage EXCEPT ![k][i] = 0]
    /\ tres' = [tres EXCEPT ![k][i] =
                   CASE ShouldQueue(k) -> "put"
                     [] Exists(k)      -> "dup"
                     [] OTHER          -> "gone"]
    /\ UNCHANGED << fs, hpc, ev, nev, wpc, witem, wlast, mpc, sinceArr, tnew, lastEv,
                    wstab, wcall, wbefore, wdrained >>

\* The time since the last Timer of k was started is still being counted.
Counting(k) == nev[k] > 0 /\ sinceArr[k] < PROCESS_DELAY

\* One second passes.  Nothing forces a thread to run on time.
Tick ==
    /\ \/ \E k \in AllPaths : Counting(k)
       \/ \E k \in AllPaths, i \in 1..MaxEvents :
             tstate[k][i] = "waiting" /\ tage[k][i] < PROCESS_DELAY
    /\ tage' = [k \in AllPaths |-> [i \in 1..MaxEvents |->
                  IF tstate[k][i] = "waiting" /\ tage[k][i] < PROCESS_DELAY
                  THEN tage[k][i] + 1 ELSE tage[k][i]]]
    /\ sinceArr' = [k \in AllPaths |->
                      IF Counting(k)
                      THEN sinceArr[k] + 1 ELSE sinceArr[k]]
    /\ UNCHANGED << fs, hpc, ev, timers, nev, tstate, queue, wpc, witem, wlast, mpc,
                    tnew, tres, lastEv, wstab, wcall, wbefore, wdrained >>

-----------------------------------------------------------------------------
(* worker                                                                  *)

AfterTryUncaught(outcome) == IF outcome = "raise" THEN "crashed" ELSE "get"

\* Lines 88-91: `except Exception` logs, `finally` calls task_done, and the
\* loop goes round again whatever the try body did.
AfterTry(outcome) == "get"

AfterStabilityNoGate(r) == IF r = "raise" THEN AfterTry(r) ELSE "dispatch"

\* Lines 81 and 86-87: the processor is reached only `if wait_for_stability(...)`;
\* the else branch logs and the iteration ends.
AfterStability(r) == IF r = "stable" THEN "dispatch" ELSE AfterTry(r)

SkipItemRequeue(q, item) == Append(q, item)

\* Lines 86-87: the else branch only logs; the queue is left as it is.
SkipItem(q, item) == q

\* Lines 82-85: process_bundle for a directory, process_single_file for a
\* regular file, neither for an item that is gone.
Processor(p) == CASE IsDir(p)  -> "bundle"
                  [] IsFile(p) -> "file"
                  [] OTHER     -> "none"

QueueGetKeeps(q) == [item |-> Head(q), rest |-> q]

QueueGetNewest(q) == [item |-> q[Len(q)], rest |-> SubSeq(q, 1, Len(q) - 1)]

\* queue.Queue.get: the oldest item leaves the queue.
QueueGet(q) == [item |-> Head(q), rest |-> Tail(q)]

\* The iteration of an item ends: one item put before the sentinel less is
\* waiting for the end of its iteration.
IterationEnds(n, main) == IF main # "running" /\ n > 0 THEN n - 1 ELSE n

AtLoopTopOrBusy(pc) == pc \in {"get", "stability", "dispatch"}

\* Lines 77-78: the one worker thread reaches processing_queue.get() only
\* at the top of its loop, when the iteration before has ended.
AtLoopTop(pc) == pc = "get"

\* Lines 78-79: item_path = processing_queue.get(); the sentinel breaks.
WorkerGet ==
    /\ AtLoopTop(wpc)
    /\ queue # <<>>
    /\ witem' = QueueGet(queue).item
    /\ queue' = QueueGet(queue).rest
    /\ wpc' = IF QueueGet(queue).item = None THEN "stopped" ELSE "stability"
    /\ wstab' = "none"
    /\ wcall' = "none"
    /\ UNCHANGED << fs, hpc, ev, timers, nev, tstate, tage, wlast, mpc, sinceArr,
                    tnew, tres, lastEv, wbefore, wdrained >>

\* Line 81: wait_for_stability(item_path) returns True or False (SpecStab
\* models its polling), or an exception leaves it.
WorkerStability(r) ==
    /\ wpc = "stability"
    /\ r \in {"stable", "timeout", "raise"}
    /\ wpc' = AfterStability(r)
    /\ wlast' = CASE r = "stable"  -> wlast
                  [] r = "timeout" -> "timeout"
                  [] OTHER         -> "failed"
    /\ wstab' = CASE r = "stable"  -> "true"
                  [] r = "timeout" -> "false"
                  [] OTHER         -> "raised"
    /\ queue' = IF r = "timeout" THEN SkipItem(queue, witem) ELSE queue
    /\ wbefore' = IF r = "stable" THEN wbefore ELSE IterationEnds(wbefore, mpc)
    /\ wdrained' = IF r = "stable" \/ mpc = "running" THEN wdrained ELSE wdrained + 1
    /\ UNCHANGED << fs, hpc, ev, timers, nev, tstate, tage, witem, mpc,
                    sinceArr, tnew, tres, lastEv, wcall >>

\* Lines 82-85: process_bundle for a directory, process_single_file for a
\* file, nothing for an item that is neither; the processor may raise.
WorkerDispatch(r) ==
    /\ wpc = "dispatch"
    /\ r \in {"ok", "raise"}
    /\ r = "raise" => IsDir(witem) \/ IsFile(witem)
    /\ wpc' = AfterTry(r)
    /\ wlast' = CASE r = "raise"   -> "failed"
                  [] IsDir(witem)  -> "bundle"
                  [] IsFile(witem) -> "file"
                  [] OTHER         -> "gone"
    /\ wcall' = Processor(witem)
    /\ wbefore' = IterationEnds(wbefore, mpc)
    /\ wdrained' = IF mpc = "running" THEN wdrained ELSE wdrained + 1
    /\ UNCHANGED << fs, hpc, ev, timers, nev, tstate, tage, queue, witem, mpc,
                    sinceArr, tnew, tres, lastEv, wstab >>

-----------------------------------------------------------------------------
(* main                                                                    *)

\* Lines 122-125: KeyboardInterrupt: observer.stop(), processing_queue.put(None)
Shutdown ==
    /\ mpc = "running"
    /\ mpc' = "joining"
    /\ queue' = Append(queue, None)
    /\ wbefore' = Len(queue) + (IF wpc \in {"stability", "dispatch"} THEN 1 ELSE 0)
    /\ UNCHANGED << fs, hpc, ev, timers, nev, tstate, tage, wpc, witem, wlast,
                    sinceArr, tnew, tres, lastEv, wstab, wcall, wdrained >>

\* Lines 127-129: observer.join(), worker_thread.join(), main returns.
MainExit ==
    /\ mpc = "joining"
    /\ hpc = "idle"
    /\ wpc = "stopped"
    /\ mpc' = "exited"
    /\ UNCHANGED << fs, hpc, ev, timers, nev, tstate, tage, queue, wpc, witem, wlast,
                    sinceArr, tnew, tres, lastEv, wstab, wcall, wbefore, wdrained >>

-----------------------------------------------------------------------------
(* utils.get_snapshot and utils.wait_for_stability (SpecStab).              *)
(*                                                                         *)
(* The polled item is a function from its entries to sizes, -1 for an      *)
(* entry that is not there: "." is the item itself when it is a regular    *)
(* file, the other entries are the files of the tree when it is a          *)
(* directory.  A snapshot is a set of <<entry, size>> pairs.               *)

Entries == {".", "f1", "f2"}
TreeFiles == Entries \ {"."}

\* The item does not exist.
Absent == [e \in Entries |-> -1]

\* The item is an empty directory.
EmptyDir == [e \in Entries |-> IF e = "." THEN -2 ELSE -1]

DiskIsDir(d) == d["."] = -2
DiskIsFile(d) == d["."] >= 0
DiskExists(d) == DiskIsDir(d) \/ DiskIsFile(d)

DiskStates ==
    {Absent}
    \cup { [e \in Entries |-> IF e = "." THEN n ELSE -1] : n \in 0..MaxSize }
    \cup { [e \in Entries |-> IF e = "." THEN -2 ELSE g[e]] :
             g \in [TreeFiles -> -1..MaxSize] }

\* What os.walk (or the path itself) lists.
Listed(d) ==
    IF DiskIsDir(d) THEN { e \in TreeFiles : d[e] >= 0 }
    ELSE IF DiskIsFile(d) THEN {"."}
    ELSE {}

\* The item with the entries V gone.
Without(d, V) ==
    IF "." \in V THEN Absent
    ELSE [e \in Entries |-> IF e \in V THEN -1 ELSE d[e]]

SnapshotRaisesUncaught(V) == V # {}

\* Lines 198 and 203: os.path.getsize raised FileNotFoundError for the
\* entries V; it is caught, so nothing leaves get_snapshot.
SnapshotRaises(V) == FALSE

\* Lines 189-206: get_snapshot(path) while the entries V vanish between the
\* listing and their getsize.
GetSnapshot(d, V) ==
    IF ~DiskExists(d) THEN {}
    ELSE IF DiskIsDir(d) THEN { <<e, d[e]>> : e \in { x \in TreeFiles : d[x] >= 0 } \ V }
    ELSE IF "." \in V THEN {}
    ELSE { <<".", d["."]>> }

IsStableNoTruthTest(current, last) == current = last

\* Line 226: current_snapshot and current_snapshot == last_snapshot
IsStable(current, last) == current # {} /\ current = last

WithinTimeoutOffByInterval(elapsed) ==
    elapsed < BUNDLE_STABILITY_TIMEOUT + BUNDLE_STABILITY_CHECK_INTERVAL

\* Line 223: time.time() - start_time < BUNDLE_STABILITY_TIMEOUT
WithinTimeout(elapsed) == elapsed < BUNDLE_STABILITY_TIMEOUT

\* Lines 223-232: one turn of the loop: snapshot, compare, return True or
\* remember the snapshot and sleep.  V vanishes during the snapshot; the turn
\* takes the sleep and up to MaxJitter seconds more.
StabPoll(V, jitter) ==
    /\ sres = "none"
    /\ WithinTimeout(selapsed)
    /\ V \subseteq Listed(disk)
    /\ disk' = Without(disk, V)
    /\ svanished' = (V # {})
    /\ spolls' = IF spolls < 2 THEN spolls + 1 ELSE spolls
    /\ IF SnapshotRaises(V)
       THEN /\ sres' = "raised"
            /\ UNCHANGED << slast, selapsed, scur >>
       ELSE LET current == GetSnapshot(disk, V) IN
            /\ scur' = current
            /\ IF IsStable(current, slast)
               THEN /\ sres' = "true"
                    /\ UNCHANGED << slast, selapsed >>
               ELSE /\ slast' = current
                    /\ selapsed' = selapsed + BUNDLE_STABILITY_CHECK_INTERVAL + jitter
                    /\ sres' = "none"
    /\ UNCHANGED sseen

\* Lines 234-235: the loop test fails: log and return False.
StabTimeout ==
    /\ sres = "none"
    /\ ~WithinTimeout(selapsed)
    /\ sres' = "false"
    /\ UNCHANGED << disk, slast, selapsed, scur, spolls, sseen, svanished >>

\* Whoever is writing the item goes on while wait_for_stability polls: the
\* item appears or goes, a file is added, removed, or grows.
DiskStep ==
    /\ sres = "none"
    /\ \/ /\ ~DiskExists(disk)
          /\ disk' \in { EmptyDir, [Absent EXCEPT !["."] = 0] }
       \/ /\ DiskExists(disk)
          /\ disk' = Absent
       \/ \E e \in TreeFiles :
             /\ DiskIsDir(disk)
             /\ disk' = [disk EXCEPT ![e] = IF @ = -1 THEN 0 ELSE -1]
       \/ \E e \in Entries :
             /\ disk[e] >= 0
             /\ disk[e] < MaxSize
             /\ disk' = [disk EXCEPT ![e] = @ + 1]
    /\ sseen' = (sseen \/ DiskExists(disk'))
    /\ UNCHANGED << slast, selapsed, sres, scur, spolls, svanished >>

-----------------------------------------------------------------------------
(* processor.py and the naming functions of utils.py (SpecProc).           *)
(* A file name is the sequence of its dot- or dash-separated parts; the    *)
(* substring tests of the code (`keyword in name.lower()`) are tests on    *)
(* the keywords contained in the parts.  One program, "Film (2020)", is    *)
(* delivered; metadata resolution has found it or has not.                 *)

\* Files of one bundle (and sources of one bundle's run).
MaxFiles == 2

\* Runs of the Bundle Processor in one behaviour.
MaxRuns == 2

\* config.py lines 24-25.
SUBTITLE_EXTENSIONS == {".srt", ".vtt", ".ass", ".ssa", ".sub"}
VIDEO_EXTENSIONS == {".mp4", ".mkv", ".avi", ".mov", ".flv", ".wmv"}

\* config.py lines 26-31, in dictionary order.
EXTRAS_KEYWORDS_TO_DIR ==
    << <<"featurette", "Featurettes">>, <<"behindthescenes", "Behind The Scenes">>,
       <<"deleted", "Deleted Scenes">>, <<"interview", "Interviews">>,
       <<"scene", "Scenes">>, <<"short", "Shorts">>, <<"trailer", "Trailers">>,
       <<"gag", "Featurettes">>, <<"bloopers", "Featurettes">>, <<"vfx", "Featurettes">> >>

\* config.py lines 42-52, in dictionary order.
EDITION_KEYWORDS ==
    << <<"extended", "{edition-Extended Cut}">>, <<"superfan", "{edition-Superfan Cut}">>,
       <<"director's cut", "{edition-Director's Cut}">>,
       <<"directors cut", "{edition-Director's Cut}">>,
       <<"theatrical", "{edition-Theatrical Cut}">>, <<"uncut", "{edition-Uncut}">>,
       <<"unrated", "{edition-Unrated}">>, <<"remastered", "{edition-Remastered}">>,
       <<"imax", "{edition-IMAX}">> >>

\* config.py lines 55-73, in dictionary order.
VERSION_KEYWORDS ==
    [ resolution |-> << <<"2160p", "4K">>, <<"4k", "4K">>, <<"1080p", "1080p">>,
                        <<"720p", "720p">>, <<"576p", "576p">>, <<"480p", "480p">>,
                        <<"dvd", "DVD">> >>,
      source     |-> << <<"remux", "Remux">>, <<"bluray", "BluRay">>,
                        <<"web-dl", "WEB-DL">>, <<"webdl", "WEB-DL">>,
                        <<"webrip", "WEBRip">>, <<"hdtv", "HDTV">>,
                        <<"dvdrip", "DVDRip">> >> ]

\* The keywords that the lower-cased part contains as substrings.
Contained(part) ==
    CASE part \in {"extended", "{edition-Extended Cut}"} -> {"extended"}
      [] part \in {"2160p"}                              -> {"2160p"}
      [] part \in {"4k", "4K"}                           -> {"4k"}
      [] part \in {"1080p"}                              -> {"1080p"}
      [] part \in {"720p"}                               -> {"720p"}
      [] part \in {"480p"}                               -> {"480p"}
      [] part \in {"remux", "Remux"}                     -> {"remux"}
      [] part \in {"bluray", "BluRay"}                   -> {"bluray"}
      [] part \in {"web-dl", "WEB-DL"}                   -> {"web-dl"}
      [] part \in {"webrip", "WEBRip"}                   -> {"webrip"}
      [] part \in {"hdtv", "HDTV"}                       -> {"hdtv"}
      [] part \in {"trailer"}                            -> {"trailer"}
      [] OTHER                                           -> {}

\* `keyword in name.lower()`
Has(name, keyword) == \E i \in 1..Len(name) : keyword \in Contained(name[i])

\* The value of the first entry of the table whose keyword the name has.
FirstMatch(table, name, default) ==
    LET hits == { i \in 1..Len(table) : Has(name, table[i][1]) } IN
    IF hits = {} THEN default
    ELSE table[CHOOSE i \in hits : \A j \in hits : i <= j][2]

\* No edition, no number, no path.
NoEdition == "none"
NoNum == -1

\* utils.is_video_file
is_video_file(ext) == ext \in VIDEO_EXTENSIONS

\* utils.get_edition_info: the tag of the first edition keyword in the name.
get_edition_info(name) == FirstMatch(EDITION_KEYWORDS, name, NoEdition)

\* utils.get_extra_type: the directory of the first extras keyword, or none.
get_extra_type(name) == FirstMatch(EXTRAS_KEYWORDS_TO_DIR, name, NoEdition)

\* utils.get_version_string: the resolution tag and the source tag, joined
\* by " - "; here the sequence of the tags.
get_version_string(name) ==
    LET res == FirstMatch(VERSION_KEYWORDS.resolution, name, NoEdition)
        src == FirstMatch(VERSION_KEYWORDS.source, name, NoEdition)
    IN  (IF res = NoEdition THEN <<>> ELSE <<res>>)
        \o (IF src = NoEdition THEN <<>> ELSE <<src>>)

\* The height ffprobe reports when it fails on the file: the try body of
\* get_quality_score lines 141-148 raises.
ProbeFails == -1

\* What os.path.exists gives no file for.
NoContent == [size |-> 0, h |-> 0, missing |-> TRUE]

\* utils.get_quality_score lines 139-148: the tier ffprobe's height gives;
\* a failure of the probe leaves the try body as an exception.
ProbeTier(height) ==
    IF height = ProbeFails THEN ProbeFails
    ELSE IF height >= 2160 THEN 400
    ELSE IF height >= 1080 THEN 300
    ELSE IF height >= 720 THEN 200
    ELSE IF height > 0 THEN 100
    ELSE 0

OnProbeFailurePropagate(tier) == tier

\* utils.get_quality_score lines 149-150: `except Exception` logs and the
\* score stays 0.
OnProbeFailure(tier) == IF tier = ProbeFails THEN 0 ELSE tier

ProbedTierOnly(name, content) ==
    IF content = NoContent THEN 0 ELSE OnProbeFailure(ProbeTier(content.h))

\* utils.get_quality_score: 0 for a missing file; else the tier from the
\* name, else from the probe, plus the source bonus from the name.  An
\* exception that left the try would leave the function (ProbeFails).
get_quality_score(name, content) ==
    LET named == IF Has(name, "2160p") \/ Has(name, "4k") THEN 400
                 ELSE IF Has(name, "1080p") THEN 300
                 ELSE IF Has(name, "720p") THEN 200
                 ELSE IF Has(name, "480p") \/ Has(name, "sd") THEN 100
                 ELSE 0
        tier  == IF named = 0 THEN OnProbeFailure(ProbeTier(content.h)) ELSE named
        bonus == IF Has(name, "remux") THEN 50
                 ELSE IF Has(name, "bluray") THEN 45
                 ELSE IF Has(name, "web-dl") \/ Has(name, "webrip") THEN 40
                 ELSE IF Has(name, "hdtv") THEN 20
                 ELSE 0
    IN  IF content = NoContent THEN 0
        ELSE IF tier = ProbeFails THEN ProbeFails
        ELSE tier + bonus

\* utils.parse_filename: the season and the start episode of the S<n>E<n>
\* or S<n> part of the name, NoNum without one.
SeasonOfPart(part) ==
    CASE part \in {"s01e01", "s01e01e02", "s01"} -> 1
      [] part = "s00"              -> 0
      [] OTHER                     -> NoNum
EpisodeOfPart(part) == CASE part \in {"s01e01", "s01e01e02"} -> 1 [] OTHER -> NoNum
EndEpisodeOfPart(part) == CASE part = "s01e01e02" -> 2 [] OTHER -> NoNum
ParseSeason(name) ==
    LET hits == { i \in 1..Len(name) : SeasonOfPart(name[i]) # NoNum } IN
    IF hits = {} THEN NoNum
    ELSE SeasonOfPart(name[CHOOSE i \in hits : \A j \in hits : i <= j])
ParseStartEpisode(name) ==
    LET hits == { i \in 1..Len(name) : EpisodeOfPart(name[i]) # NoNum } IN
    IF hits = {} THEN NoNum
    ELSE EpisodeOfPart(name[CHOOSE i \in hits : \A j \in hits : i <= j])

\* The end episode of the part that gives the start episode.
ParseEndEpisode(name) ==
    LET hits == { i \in 1..Len(name) : EpisodeOfPart(name[i]) # NoNum } IN
    IF hits = {} THEN NoNum
    ELSE EndEpisodeOfPart(name[CHOOSE i \in hits : \A j \in hits : i <= j])

\* Python truthiness of parsed.get("season"): None and 0 are false.
Truthy(n) == n # NoNum /\ n # 0

\* The source files.  The content of a file is its size and what the probe
\* sees in it.
VideoContents == { [size |-> 1, h |-> 720], [size |-> 2, h |-> 1080] }
VideoStems ==
    { <<"film">> \o d \o r : d \in {<<>>, <<"extended">>}, r \in {<<>>, <<"1080p", "bluray">>} }
    \cup { <<"film", "s01e01">> \o d : d \in {<<>>, <<"extended">>} }
VideoFiles == [stem : VideoStems, ext : {".mkv"}, content : VideoContents]
ExtraFiles == [stem : {<<"film", "trailer">>, <<"film", "s01e01", "trailer">>}, ext : {".mkv"}, content : {[size |-> 1, h |-> 720]}]
SubFiles == [stem : {<<"film", "fr">>}, ext : {".srt"},
             content : {[size |-> 1, h |-> 0], [size |-> 2, h |-> 0]}]
Files == VideoFiles \cup ExtraFiles \cup SubFiles

\* What can be dropped under the watch root: one file, or a directory with
\* up to MaxFiles different files in the order os.walk lists them.
FileSeqs ==
    UNION { { s \in [1..n -> Files] : \A i, j \in 1..n : i # j => s[i] # s[j] } :
            n \in 0..MaxFiles }
Items ==
    { [dir |-> FALSE, name |-> f.stem, files |-> <<f>>] : f \in Files }
    \cup [dir : {TRUE}, name : {<<"film">>, <<"film", "s01">>, <<"film", "s00">>}, files : FileSeqs]
NoItem == [dir |-> FALSE, name |-> <<>>, files |-> <<>>]

\* The destination: the directory of the program under MOVIES_DIR and its
\* "Season 01" directory under TV_DIR.  A destination path is its directory,
\* the parts of its name and its extension.
MovieDir == "movies"
SeasonDir == "season01"
NoFile == [dir |-> "none", name |-> <<>>, ext |-> ""]
Theatrical == "{edition-Theatrical Cut}"

\* f"{safe_title} ({year})" and f"{safe_title} ({year}) - s{season:02d}e{start_ep:02d}"
BaseFilename == <<"Film (2020)">>
BaseEpFilename(season, start_ep) ==
    BaseFilename \o << CASE season = 1 /\ start_ep = 1 -> "s01e01" [] OTHER -> "s??e??" >>

\* processor.py line 159: `if end_ep: ep_str += f"-e{end_ep:02d}"`; the
\* base name of a range continues the base name of its first episode.
EndEpStr(end_ep) == IF end_ep = 2 THEN <<"-e02">> ELSE <<>>

Put(d, p, c) == [q \in DOMAIN d \cup {p} |-> IF q = p THEN c ELSE d[q]]
Rename(d, p, q) == [r \in (DOMAIN d \ {p}) \cup {q} |-> IF r = q THEN d[p] ELSE d[r]]
Max(S) == CHOOSE x \in S : \A y \in S : y <= x

CopyAlways(d, p, c) == Put(d, p, c)

\* `if not os.path.exists(final_path): shutil.copy2(source, final_path)`
CopyIfAbsent(d, p, c) == IF p \in DOMAIN d THEN d ELSE Put(d, p, c)

\* os.listdir(dir) filtered by existing_file.startswith(base)
Listing(d, dir, base) == { p \in DOMAIN d : p.dir = dir /\ IsPrefix(base, p.name) }

\* The files of the listing that get_edition_info finds no edition in.
Unlabeled(d, dir, base) ==
    { p \in Listing(d, dir, base) : get_edition_info(p.name) = NoEdition }

\* utils.get_existing_version_info: edition -> highest score of the videos
\* of the listing; a name without edition counts as Theatrical.
EditionOf(name) ==
    IF get_edition_info(name) = NoEdition THEN Theatrical ELSE get_edition_info(name)
get_existing_version_info(d, dir, base) ==
    LET vids == { p \in Listing(d, dir, base) : is_video_file(p.ext) } IN
    [ e \in { EditionOf(p.name) : p \in vids } |->
        Max({ get_quality_score(p.name, d[p]) : p \in { q \in vids : EditionOf(q.name) = e } }) ]

\* The directory and the base name a video is delivered under.
DestDir(flow) == IF flow = "series" THEN SeasonDir ELSE MovieDir
DestBase(flow, v) ==
    IF flow = "series"
    THEN BaseEpFilename(ParseSeason(v.stem), ParseStartEpisode(v.stem))
         \o EndEpStr(ParseEndEpisode(v.stem))
    ELSE BaseFilename

\* processor.py lines 84-100 and 165-178: the unlabeled file the listing
\* gives first (u; os.listdir is in arbitrary order) is renamed to carry the
\* incoming edition when the sizes are equal and the new name is free.
RepairCandidates(d, flow, v) ==
    IF get_edition_info(v.stem) = NoEdition \/ Unlabeled(d, DestDir(flow), DestBase(flow, v)) = {}
    THEN {NoFile}
    ELSE Unlabeled(d, DestDir(flow), DestBase(flow, v))
Repair(d, flow, v, u) ==
    LET repaired_path == [dir |-> DestDir(flow),
                          name |-> DestBase(flow, v) \o <<get_edition_info(v.stem)>>,
                          ext |-> u.ext]
    IN  IF /\ u # NoFile
           /\ d[u].size = v.content.size
           /\ repaired_path \notin DOMAIN d
        THEN Rename(d, u, repaired_path)
        ELSE d

ShouldSkipAnyEdition(existing_versions, new_edition, new_score) ==
    \E e \in DOMAIN existing_versions : new_score <= existing_versions[e]

\* processor.py lines 109 and 185.
ShouldSkip(existing_versions, new_edition, new_score) ==
    /\ new_edition \in DOMAIN existing_versions
    /\ new_score <= existing_versions[new_edition]

\* processor.py lines 113-121 and 189-194: the final path of a video.
FinalPath(flow, v) ==
    LET new_edition == EditionOf(v.stem) IN
    [ dir  |-> DestDir(flow),
      name |-> DestBase(flow, v)
               \o (IF new_edition # Theatrical THEN <<new_edition>> ELSE <<>>)
               \o (IF flow = "series" THEN <<>> ELSE get_version_string(v.stem)),
      ext  |-> v.ext ]

\* orz_automated.py lines 511-520: where the extras loop of the movie flow
\* delivers an Extra: the subdirectory named for its category, under the
\* name f"{safe_title} ({year}) - {base_extra_name}".
ExtraPath(f) ==
    [ dir |-> get_extra_type(f.stem), name |-> BaseFilename \o f.stem, ext |-> f.ext ]

NeverUnparsed(flow, v) == FALSE

\* processor.py lines 151-153: series flow skips a video without season or
\* start episode.
Unparsed(flow, v) ==
    flow = "series" /\ (ParseSeason(v.stem) = NoNum \/ ParseStartEpisode(v.stem) = NoNum)

\* config.py lines 32-38.
LANG_CODE_MAP ==
    [ tag \in {"english", "eng", "spanish", "spa", "esp", "french", "fre",
               "german", "ger", "italian", "ita"} |->
        CASE tag \in {"english", "eng"}        -> "en"
          [] tag \in {"spanish", "spa", "esp"} -> "es"
          [] tag \in {"french", "fre"}         -> "fr"
          [] tag \in {"german", "ger"}         -> "de"
          [] tag \in {"italian", "ita"}        -> "it" ]

\* The parts used in names that are two or three letters:
\* `len(tag) in [2, 3] and tag.isalpha()`.
Letters23 == {"en", "fr", "eng", "spa", "esp", "fre", "ger", "ita", "sdh"}

\* process_subtitles lines 49-50: the tags kept as a suffix.
ForcedTags == {"forced", "sdh"}

\* process_subtitles lines 51-54: the language a tag resolves to, none for
\* a forced/sdh tag and for a tag that is no language.
LangOfPart(part) ==
    IF part \in ForcedTags THEN NoEdition
    ELSE IF part \in DOMAIN LANG_CODE_MAP THEN LANG_CODE_MAP[part]
    ELSE IF part \in Letters23 THEN part
    ELSE NoEdition

\* process_subtitles lines 44-56: the tags are visited from the last to the
\* first and every resolving tag overwrites lang_tag, so the first tag that
\* resolves a language wins; "en" without one.
LangTag(tags) ==
    LET hits == { i \in 1..Len(tags) : LangOfPart(tags[i]) # NoEdition } IN
    IF hits = {} THEN "en"
    ELSE LangOfPart(tags[CHOOSE i \in hits : \A j \in hits : i <= j])

NoForcedTag(tags) == <<>>

\* process_subtitles lines 45-50: forced_tag, likewise the first forced/sdh
\* tag, empty without one.
ForcedTag(tags) ==
    LET hits == { i \in 1..Len(tags) : tags[i] \in ForcedTags } IN
    IF hits = {} THEN <<>>
    ELSE << tags[CHOOSE i \in hits : \A j \in hits : i <= j] >>

MatchingVideoShortest(sub, map) ==
    LET cands == { v \in DOMAIN map : IsPrefix(v.stem, sub.stem) } IN
    IF cands = {} THEN NoFile
    ELSE CHOOSE v \in cands : \A w \in cands : Len(v.stem) <= Len(w.stem)

\* process_subtitles lines 27-32: the mapped video with the longest base
\* name that the subtitle's base name starts with.
MatchingVideo(sub, map) ==
    LET cands == { v \in DOMAIN map : IsPrefix(v.stem, sub.stem) } IN
    IF cands = {} THEN NoFile
    ELSE CHOOSE v \in cands : \A w \in cands : Len(w.stem) <= Len(v.stem)

\* process_subtitles lines 41-59: the final path of a subtitle matched to
\* the video v: f"{final_video_basename}.{lang_tag}{forced_tag}{sub_ext}"
\* in the directory of the delivered video.
FinalSubPath(sub, v, map) ==
    LET tags == SubSeq(sub.stem, Len(v.stem) + 1, Len(sub.stem)) IN
    [ dir  |-> map[v].dir,
      name |-> map[v].name \o <<LangTag(tags)>> \o ForcedTag(tags),
      ext  |-> sub.ext ]

\* process_subtitles: each subtitle with a matching delivered video is
\* copied next to it under the video's name, unless that path exists.
RECURSIVE process_subtitles(_, _, _)
process_subtitles(d, subs, map) ==
    IF subs = <<>> THEN d
    ELSE LET sub == Head(subs)
             v == MatchingVideo(sub, map)
         IN  IF v = NoFile THEN process_subtitles(d, Tail(subs), map)
             ELSE process_subtitles(CopyIfAbsent(d, FinalSubPath(sub, v, map), sub.content),
                                    Tail(subs), map)

SafeRemoveUnguarded(is_source_bundle, delete_source_files) == TRUE

\* utils.safe_remove line 167: nothing is removed when the path is a source
\* bundle and the DELETE_SOURCE_FILES argument is false.
SafeRemoveDeletes(is_source_bundle, delete_source_files) ==
    ~(is_source_bundle /\ ~delete_source_files)

\* utils.py line 158: the default of the argument DELETE_SOURCE_FILES, which
\* processor.py lines 245 and 264 do not pass.
DeleteSourceFilesDefault == FALSE

\* process_bundle lines 210-221: the walk sorts the files into main videos,
\* extras and subtitles.
IsMain(f) == is_video_file(f.ext) /\ get_extra_type(f.stem) = NoEdition
IsExtra(f) == is_video_file(f.ext) /\ get_extra_type(f.stem) # NoEdition
IsSubtitle(f) == ~is_video_file(f.ext) /\ f.ext \in SUBTITLE_EXTENSIONS

\* process_bundle line 223: `if not video_files`
Abandons(videos, extras) == videos = <<>>

\* process_bundle line 229 and process_single_file line 252: the type hint.
RECURSIVE AnySeason(_)
AnySeason(videos) ==
    IF videos = <<>> THEN FALSE
    ELSE Truthy(ParseSeason(Head(videos).stem)) \/ AnySeason(Tail(videos))
Hint(item, videos) ==
    IF item.dir
    THEN IF AnySeason(videos) \/ Truthy(ParseSeason(item.name)) THEN "series" ELSE "movie"
    ELSE IF Truthy(ParseSeason(item.name)) THEN "series" ELSE "movie"

EmptyMap == [q \in {} |-> 0]

-----------------------------------------------------------------------------
(* metadata.search_tvdb_metadata (SpecMeta).  The lookup service and the   *)
(* fuzzy matcher are collaborators: the service fails or replies with a    *)
(* list of results, the matcher gives every name a score against the title. *)

\* Results in one reply of the lookup service.
MaxResults == 2

\* config.py line 12.
CONFIDENCE_THRESHOLD == 85

NoName == "none"
NoHint == "none"
Names == {"Film", "Le Film"}
Kinds == {"movie", "series"}

\* A result of tvdb.search: its type, its name and its English translation.
Results == [type : Kinds, name : Names \cup {NoName}, eng : Names \cup {NoName}]
ResultSeqs == UNION { [1..n -> Results] : n \in 0..MaxResults }

\* The client cannot be constructed, the search call fails, a result is
\* not a dictionary, or the service replies with a list of results.
Faults == {"client", "search", "malformed"}
Replies == [fault : {"none"}, results : ResultSeqs] \cup [fault : Faults, results : {<<>>}]

\* The scores of the matcher, around the threshold.
Confidences == {CONFIDENCE_THRESHOLD - 1, CONFIDENCE_THRESHOLD, 100}

\* What search_tvdb_metadata returns: the result at idx of the reply with
\* its name replaced by the translation, or None; Raised stands for an
\* exception leaving the function.
NoRecord == [idx |-> 0, type |-> "none", name |-> NoName]
Raised == [idx |-> 0, type |-> "raised", name |-> NoName]

SurvivorsUnfiltered(results, media_type, i) == [j \in 1..Len(results) |-> j]

\* Lines 43-44: the results of the hinted type, all of them without hint.
RECURSIVE Survivors(_, _, _)
Survivors(results, media_type, i) ==
    IF i > Len(results) THEN <<>>
    ELSE (IF media_type = NoHint \/ results[i].type = media_type THEN <<i>> ELSE <<>>)
         \o Survivors(results, media_type, i + 1)

\* choices[key] = value on a dictionary kept in insertion order.
DictSet(c, key, value) ==
    IF \E j \in 1..Len(c) : c[j].key = key
    THEN [j \in 1..Len(c) |-> IF c[j].key = key THEN [key |-> key, value |-> value] ELSE c[j]]
    ELSE Append(c, [key |-> key, value |-> value])

\* Lines 49-55: the name and the differing translation of every surviving
\* result are keys of choices.
RECURSIVE BuildChoices(_, _, _)
BuildChoices(c, results, kept) ==
    IF kept = <<>> THEN c
    ELSE LET r  == results[Head(kept)]
             c1 == IF r.name # NoName THEN DictSet(c, r.name, Head(kept)) ELSE c
             c2 == IF r.eng # NoName /\ r.eng # r.name THEN DictSet(c1, r.eng, Head(kept)) ELSE c1
         IN  BuildChoices(c2, results, Tail(kept))

\* fuzzy_process.extractOne: the first key with the highest score.
extractOne(scores, choices) ==
    LET best == CHOOSE j \in 1..Len(choices) :
                    /\ \A k \in 1..Len(choices) : scores[choices[k].key] <= scores[choices[j].key]
                    /\ \A k \in 1..(j - 1) : scores[choices[k].key] < scores[choices[j].key]
    IN  [name |-> choices[best].key, confidence |-> scores[choices[best].key], value |-> choices[best].value]

MeetsThresholdStrictly(confidence) == confidence > CONFIDENCE_THRESHOLD

\* Line 63.
MeetsThreshold(confidence) == confidence >= CONFIDENCE_THRESHOLD

\* Lines 36-72: the body of the try.
SearchBody(media_type, reply, scores) ==
    IF reply.fault # "none" THEN Raised
    ELSE IF reply.results = <<>> THEN NoRecord
    ELSE LET kept == Survivors(reply.results, media_type, 1) IN
         IF kept = <<>> THEN NoRecord
         ELSE LET choices == BuildChoices(<<>>, reply.results, kept) IN
              IF choices = <<>> THEN NoRecord
              ELSE LET best == extractOne(scores, choices)
                       selected_result == reply.results[best.value]
                   IN  IF MeetsThreshold(best.confidence)
                       THEN [ idx  |-> best.value,
                              type |-> selected_result.type,
                              name |-> IF selected_result.eng # NoName
                                       THEN selected_result.eng ELSE selected_result.name ]
                       ELSE NoRecord

OnExceptionPropagate(r) == r

\* Lines 73-75: `except Exception` logs and returns None.
OnException(r) == IF r = Raised THEN NoRecord ELSE r

\* Lines 32-33, then the try.
search_tvdb_metadata(title, media_type, reply, scores) ==
    IF title = "" THEN NoRecord ELSE OnException(SearchBody(media_type, reply, scores))

\* tvdb.search (line 37) is reached with a title and a client.
Queried(title, reply) == title # "" /\ reply.fault # "client"

\* parse_filename: the title is what precedes the season in the name.
Title(name) == IF name = <<>> \/ SeasonOfPart(name[1]) # NoNum THEN "" ELSE name[1]

\* search_tvdb_metadata is called and returns.
MetaCall ==
    /\ mstep = "call"
    /\ mresult' = search_tvdb_metadata(mtitle, mtype, mreply, mscores)
    /\ mqueried' = Queried(mtitle, mreply)
    /\ mstep' = "returned"
    /\ UNCHANGED << mtitle, mtype, mreply, mscores >>

\* search_tvdb_metadata is not running.
InitMetaIdle ==
    /\ mtitle = ""
    /\ mtype = NoHint
    /\ mreply = [fault |-> "none", results |-> <<>>]
    /\ mscores = [n \in Names |-> 100]
    /\ mresult = NoRecord
    /\ mqueried = FALSE
    /\ mstep = "idle"

\* Parts of a name given to get_quality_score.
MaxParts == 3

\* The names scored: up to MaxParts different parts, the resolution and
\* source keywords among them; and what ffprobe reports on the file.
QualityParts == {"film", "2160p", "1080p", "720p", "remux", "bluray", "web-dl", "webrip", "hdtv"}
QualityNames ==
    UNION { { s \in [1..n -> QualityParts] : \A i, j \in 1..n : i # j => s[i] # s[j] } :
            n \in 0..MaxParts }
ProbeHeights == {ProbeFails, 0, 480, 720, 1080, 2160}

\* get_quality_score is called and returns.
ScoreCall ==
    /\ qpc = "call"
    /\ qresult' = get_quality_score(qname, IF qexists THEN [size |-> 1, h |-> qprobe]
                                                     ELSE NoContent)
    /\ qpc' = "returned"
    /\ UNCHANGED << qname, qexists, qprobe >>

\* get_quality_score is not running.
InitScoreIdle ==
    /\ qname = <<>>
    /\ qexists = FALSE
    /\ qprobe = 0
    /\ qresult = 0
    /\ qpc = "idle"

-----------------------------------------------------------------------------
(* utils.parse_filename (SpecParse).  A name is the sequence of its atoms: *)
(* a separator character, a run of digits, or a run of letters; the        *)
(* letters S and E that a regular expression can match against are atoms   *)
(* of their own, so "Shows02e05" is <<"Show", "s", "02", "e", "05">>.       *)

\* Pieces joined after the title in a name given to parse_filename.
MaxPieces == 2

SepChars == {".", "_", " ", "-"}
SLetters == {"S", "s"}
ELetters == {"E", "e"}
Words == {"Show", "Name", "mkv", "p"}

\* The runs of digits used in names: their length and their value.
DigitRuns ==
    [ r \in {"2", "02", "05", "06", "1080", "1979", "1999", "2019"} |->
        CASE r = "2"    -> [len |-> 1, value |-> 2]
          [] r = "02"   -> [len |-> 2, value |-> 2]
          [] r = "05"   -> [len |-> 2, value |-> 5]
          [] r = "06"   -> [len |-> 2, value |-> 6]
          [] r = "1080" -> [len |-> 4, value |-> 1080]
          [] r = "1979" -> [len |-> 4, value |-> 1979]
          [] r = "1999" -> [len |-> 4, value |-> 1999]
          [] r = "2019" -> [len |-> 4, value |-> 2019] ]

IsDigits(a) == a \in DOMAIN DigitRuns
\* \w: a letter or a digit (the underscores are spaces by then).
IsWordAtom(a) == a \in DOMAIN DigitRuns \cup Words \cup SLetters \cup ELetters

\* The atom at position i; the empty string past either end.
At(c, i) == IF i \in 1..Len(c) THEN c[i] ELSE ""

\* int() of what \d{1,2} matches at the start of a run: greedy, two digits
\* when the run has them.
Lead2(r) == IF DigitRuns[r].len <= 2 THEN DigitRuns[r].value
            ELSE DigitRuns[r].value \div 100

\* \d{1,2} followed by something that is no digit: the whole run, of one
\* or two digits.
ShortRun(a) == IsDigits(a) /\ DigitRuns[a].len <= 2

\* Line 35, os.path.splitext(filename)[0]: the name up to its last dot,
\* unless only dots precede that dot.
Splitext(name) ==
    LET dots == { i \in 1..Len(name) : name[i] = "." } IN
    IF dots = {} THEN name
    ELSE LET last == CHOOSE i \in dots : \A j \in dots : j <= i IN
         IF \E j \in 1..(last - 1) : name[j] # "." THEN SubSeq(name, 1, last - 1) ELSE name

\* Line 36: re.sub(r'[\._]', ' ', base_name)
CleanName(base) == [ i \in 1..Len(base) |-> IF base[i] \in {".", "_"} THEN " " ELSE base[i] ]

\* Line 37: \b(19[89]\d|20\d{2})\b matches at atom i.
YearAt(c, i) ==
    /\ IsDigits(c[i]) /\ DigitRuns[c[i]].len = 4
    /\ DigitRuns[c[i]].value \in 1980..2099
    /\ ~IsWordAtom(At(c, i - 1)) /\ ~IsWordAtom(At(c, i + 1))

\* Where [Ss] is tried when a match is attempted at i: after the optional
\* separator.
SPos(c, i) == IF At(c, i) \in SepChars /\ At(c, i + 1) \in SLetters THEN i + 1 ELSE i
\* Where [Ee] is tried after the digits ending before k.
EPos(c, k) == IF At(c, k) \in SepChars THEN k + 1 ELSE k

\* Line 41: the S<n>E<n>(E<n>)? expression matches with its start at i.
SEAt(c, i) ==
    LET j == SPos(c, i)
        k == EPos(c, j + 2)
    IN  /\ At(c, j) \in SLetters /\ ShortRun(At(c, j + 1))
        /\ At(c, k) \in ELetters /\ IsDigits(At(c, k + 1))

\* Group 3 of the match at i: the number after a second E, NoNum when the
\* group did not take part.
SEEnd(c, i) ==
    LET k == EPos(c, SPos(c, i) + 2)
        m == EPos(c, k + 2)
    IN  IF ShortRun(At(c, k + 1)) /\ At(c, m) \in ELetters /\ IsDigits(At(c, m + 1))
        THEN Lead2(At(c, m + 1)) ELSE NoNum

\* Line 50: [._ -]?[Ss](\d{1,2})\b matches with its start at i.
SOnlyAt(c, i) ==
    LET j == SPos(c, i) IN
    /\ At(c, j) \in SLetters /\ ShortRun(At(c, j + 1)) /\ ~IsWordAtom(At(c, j + 2))

\* re.search: the leftmost position of a match, 0 without one.
FirstYear(c) ==
    LET hits == { i \in 1..Len(c) : YearAt(c, i) } IN
    IF hits = {} THEN 0 ELSE CHOOSE i \in hits : \A j \in hits : i <= j
FirstSE(c) ==
    LET hits == { i \in 1..Len(c) : SEAt(c, i) } IN
    IF hits = {} THEN 0 ELSE CHOOSE i \in hits : \A j \in hits : i <= j
FirstSOnly(c) ==
    LET hits == { i \in 1..Len(c) : SOnlyAt(c, i) } IN
    IF hits = {} THEN 0 ELSE CHOOSE i \in hits : \A j \in hits : i <= j

\* Lines 58-59: strip() and re.sub(r'\s+', ' ', ...): no space at either
\* end and no space after a space.
RECURSIVE CollapseSpaces(_, _)
CollapseSpaces(t, afterSpace) ==
    IF t = <<>> THEN <<>>
    ELSE IF Head(t) = " "
         THEN (IF afterSpace THEN <<>> ELSE <<" ">>) \o CollapseSpaces(Tail(t), TRUE)
         ELSE <<Head(t)>> \o CollapseSpaces(Tail(t), FALSE)
TitleText(t) ==
    LET u == CollapseSpaces(t, TRUE) IN
    IF u # <<>> /\ u[Len(u)] = " " THEN SubSeq(u, 1, Len(u) - 1) ELSE u

\* utils.parse_filename lines 35-60; None is NoNum.
parse_filename(name) ==
    LET clean_name == CleanName(Splitext(name))
        year_match == FirstYear(clean_name)
        se_match   == FirstSE(clean_name)
        s_only     == IF se_match = 0 THEN FirstSOnly(clean_name) ELSE 0
        inf        == Len(clean_name) + 1
        year_pos   == IF year_match # 0 THEN year_match ELSE inf
        se_pos     == IF se_match # 0 THEN se_match
                      ELSE IF s_only # 0 THEN s_only ELSE inf
        end_of_title_pos == IF year_pos <= se_pos THEN year_pos ELSE se_pos
    IN  [ title  |-> TitleText(SubSeq(clean_name, 1, end_of_title_pos - 1)),
          year   |-> IF year_match # 0 THEN DigitRuns[clean_name[year_match]].value ELSE NoNum,
          season |-> IF se_match # 0 THEN DigitRuns[clean_name[SPos(clean_name, se_match) + 1]].value
                     ELSE IF s_only # 0 THEN DigitRuns[clean_name[SPos(clean_name, s_only) + 1]].value
                     ELSE NoNum,
          start_episode |-> IF se_match # 0
                            THEN Lead2(clean_name[EPos(clean_name, SPos(clean_name, se_match) + 2) + 1])
                            ELSE NoNum,
          end_episode   |-> IF se_match # 0 THEN SEEnd(clean_name, se_match) ELSE NoNum ]

\* The names parsed: a title, up to so many pieces joined to it, and an
\* extension or none (a directory name).
TitleTexts ==
    { <<>>, <<"Show">>, <<"Show", ".", "Name">>, <<"Show", "_", "Name">>,
      <<"Show", " ", " ", "Name">> }
Joins == { <<>>, <<".">>, <<" ">>, <<"_">>, <<"-">> }
Pieces ==
    { <<"2019">>, <<"1999">>, <<"1979">>,
      <<"S", "02", "E", "05">>, <<"s", "02", "e", "05">>,
      <<"S", "02", "E", "05", "E", "06">>, <<"S", "02", "E", "05", "-", "E", "06">>,
      <<"S", "02", ".", "E", "05">>, <<"S", "02">>, <<"s", "2">>, <<"E", "05">>,
      <<"1080", "p">>, <<"Name">> }
Extensions == { <<>>, <<".", "mkv">> }
RECURSIVE Joined(_)
Joined(n) ==
    IF n = 0 THEN { <<>> }
    ELSE { t \o j \o q : t \in Joined(n - 1), j \in Joins, q \in Pieces }
\* Two runs of digits side by side would be one run.
Canonical(name) == \A i \in 1..(Len(name) - 1) : ~(IsDigits(name[i]) /\ IsDigits(name[i + 1]))
ParsedNames(pieces) ==
    { n \in { t \o m \o e : t \in TitleTexts,
                            m \in UNION { Joined(k) : k \in 0..pieces },
                            e \in Extensions } : Canonical(n) }

NoParse == [title |-> <<>>, year |-> NoNum, season |-> NoNum,
            start_episode |-> NoNum, end_episode |-> NoNum]

\* parse_filename is called and returns.
ParseCall ==
    /\ fpc = "call"
    /\ fresult' = parse_filename(fname)
    /\ fpc' = "returned"
    /\ UNCHANGED fname

\* parse_filename is not running.
InitParseIdle ==
    /\ fname = <<>>
    /\ fresult = NoParse
    /\ fpc = "idle"

\* An item is written under the watch root while the processor is not
\* running; what the last run left in its locals is dropped.  A directory
\* is dropped first or after a single file, not after another directory.
DropOf(items) ==
    /\ ppc = "done" \/ (ppc = "idle" /\ psrc = NoItem)
    /\ nruns < MaxRuns
    /\ \E item \in items \ {psrc} : (item.dir => ~psrc.dir) /\ psrc' = item
    /\ ppc' = "idle"
    /\ pitem' = NoItem
    /\ video_files' = <<>>
    /\ extra_files' = <<>>
    /\ subtitle_files' = <<>>
    /\ final_media_paths' = EmptyMap
    /\ pflow' = "none"
    /\ phint' = "none"
    /\ pfault' = "none"
    /\ pout' = "none"
    /\ dstart' = EmptyMap
    /\ prepeat' = FALSE
    /\ UNCHANGED << DELETE_SOURCE_FILES, dest, nruns >>

Drop == DropOf(Items)

\* Episode files dropped one at a time: a single episode or a range that
\* starts with it, unlabeled or extended, in either container.
EpisodeFiles ==
    [ stem    : { <<"film", e>> \o d : e \in {"s01e01", "s01e01e02"}, d \in {<<>>, <<"extended">>} },
      ext     : {".mkv", ".mp4"},
      content : VideoContents ]
EpisodeItems == { [dir |-> FALSE, name |-> f.stem, files |-> <<f>>] : f \in EpisodeFiles }

\* What the lookup service does on the processor's query: it fails, or it
\* knows the program as a movie, as a series, as both or not at all.
ProcReplies ==
    { r \in Replies : \A i \in 1..Len(r.results) :
          /\ r.results[i].name = "Film" /\ r.results[i].eng = NoName
          /\ \A j \in 1..Len(r.results) : i # j => r.results[i] # r.results[j] }

\* process_bundle lines 206-243 and process_single_file lines 247-262 up to
\* the call of the flow: classification, type hint, metadata lookup on the
\* reply of the lookup service; an item without metadata is abandoned.
ProcStart(reply) ==
    /\ ppc \in {"idle", "done"}
    /\ psrc # NoItem
    /\ nruns < MaxRuns
    /\ \E videos \in { IF psrc.dir THEN SelectSeq(psrc.files, IsMain) ELSE psrc.files },
          extras \in { IF psrc.dir THEN SelectSeq(psrc.files, IsExtra) ELSE <<>> },
          subs   \in { IF psrc.dir THEN SelectSeq(psrc.files, IsSubtitle) ELSE <<>> } :
       \E hint \in { Hint(psrc, videos) } :
       \E metadata \in { search_tvdb_metadata(Title(psrc.name), hint, reply,
                                               [n \in Names |-> 100]) } :
       \E stop \in { IF psrc.dir /\ Abandons(videos, extras) THEN "novideo"
                     ELSE IF metadata = Raised THEN "raised"
                     ELSE IF metadata = NoRecord THEN "nometa"
                     ELSE "none" } :
           /\ stop = "novideo" => reply = [fault |-> "none", results |-> <<>>]
           /\ pout' = stop
           /\ ppc' = IF stop = "none" THEN "repair" ELSE "done"
           /\ pflow' = IF stop = "none" THEN metadata.type ELSE "none"
           /\ phint' = IF stop = "novideo" THEN "none" ELSE hint
           /\ pfault' = IF stop = "novideo" THEN "none" ELSE reply.fault
           /\ video_files' = IF stop = "none" THEN videos ELSE <<>>
           /\ extra_files' = IF stop = "none" THEN extras ELSE <<>>
           /\ subtitle_files' = IF stop = "none" THEN subs ELSE <<>>
    /\ pitem' = psrc
    /\ nruns' = nruns + 1
    /\ prepeat' = (ppc = "done" /\ pitem = psrc /\ pout \in {"movie", "series"})
    /\ dstart' = dest
    /\ final_media_paths' = EmptyMap
    /\ UNCHANGED << DELETE_SOURCE_FILES, psrc, dest >>

\* Where the loop over video_files goes after a video.
NextVideo(rest) == IF rest = <<>> THEN "finish" ELSE "repair"

\* process_movie_bundle lines 79-100, process_tv_season_bundle lines 146-178:
\* the next video; series flow skips one it cannot parse; the audit renames
\* an unlabeled destination file of the same size.
ProcRepair(u) ==
    /\ ppc = "repair"
    /\ LET v == Head(video_files) IN
       IF Unparsed(pflow, v)
       THEN /\ u = NoFile
            /\ video_files' = Tail(video_files)
            /\ ppc' = NextVideo(Tail(video_files))
            /\ UNCHANGED dest
       ELSE /\ u \in RepairCandidates(dest, pflow, v)
            /\ dest' = Repair(dest, pflow, v, u)
            /\ ppc' = "decide"
            /\ UNCHANGED video_files
    /\ UNCHANGED << DELETE_SOURCE_FILES, psrc, pitem, extra_files, subtitle_files,
                    final_media_paths, pflow, phint, pfault, pout, nruns, dstart, prepeat >>

\* process_movie_bundle lines 103-128, process_tv_season_bundle lines
\* 181-201: skip the video, or map it to its final path and copy it there
\* unless the path exists.
ProcDecide ==
    /\ ppc = "decide"
    /\ LET v == Head(video_files)
           existing_versions ==
               get_existing_version_info(dest, DestDir(pflow), DestBase(pflow, v))
           new_score == get_quality_score(v.stem, v.content)
       IN  IF ShouldSkip(existing_versions, EditionOf(v.stem), new_score)
           THEN UNCHANGED << dest, final_media_paths >>
           ELSE /\ final_media_paths' = Put(final_media_paths, v, FinalPath(pflow, v))
                /\ dest' = CopyIfAbsent(dest, FinalPath(pflow, v), v.content)
    /\ video_files' = Tail(video_files)
    /\ ppc' = NextVideo(Tail(video_files))
    /\ UNCHANGED << DELETE_SOURCE_FILES, psrc, pitem, extra_files, subtitle_files,
                    pflow, phint, pfault, pout, nruns, dstart, prepeat >>

\* processor.py lines 130-134 and 203, then 245 and 264: the extras loop
\* does nothing, the subtitles are copied, and safe_remove is called with
\* is_source_bundle=True and no DELETE_SOURCE_FILES argument.
ProcFinish ==
    /\ ppc = "finish"
    /\ dest' = process_subtitles(dest, subtitle_files, final_media_paths)
    /\ psrc' = IF SafeRemoveDeletes(TRUE, DeleteSourceFilesDefault) THEN NoItem ELSE psrc
    /\ ppc' = "done"
    /\ pout' = pflow
    /\ UNCHANGED << DELETE_SOURCE_FILES, pitem, video_files, extra_files, subtitle_files,
                    final_media_paths, pflow, phint, pfault, nruns, dstart, prepeat >>

\* The Bundle Processor is not running and nothing has been delivered.
InitProcState ==
    /\ psrc = NoItem
    /\ dest = EmptyMap
    /\ ppc = "idle"
    /\ pitem = NoItem
    /\ video_files = <<>>
    /\ extra_files = <<>>
    /\ subtitle_files = <<>>
    /\ final_media_paths = EmptyMap
    /\ pflow = "none"
    /\ phint = "none"
    /\ pfault = "none"
    /\ pout = "none"
    /\ nruns = 0
    /\ dstart = EmptyMap
    /\ prepeat = FALSE

\* config.py line 13: DELETE_SOURCE_FILES is false unless the environment
\* sets it.
InitProcIdle == DELETE_SOURCE_FILES = FALSE /\ InitProcState

-----------------------------------------------------------------------------
(* The specifications.                                                     *)

\* The filesystem under the watch root changes.
FsStep ==
    /\ \E d \in Drops : FsCreate(d) \/ FsRemove(d)
    /\ UNCHANGED << hpc, ev, timers, nev, tstate, tage, queue, wpc, witem, wlast, mpc,
                    sinceArr, tnew, tres, lastEv, wstab, wcall, wbefore, wdrained >>

\* Lines 37-41 and 110-118: an empty timer map, an empty queue, the worker
\* and the observer started.
InitWatch ==
    /\ fs = {}
    /\ hpc = "idle"
    /\ ev = NoPath
    /\ timers = [k \in AllPaths |-> 0]
    /\ nev = [k \in AllPaths |-> 0]
    /\ tstate = [k \in AllPaths |-> [i \in 1..MaxEvents |-> "unused"]]
    /\ tage = [k \in AllPaths |-> [i \in 1..MaxEvents |-> 0]]
    /\ queue = <<>>
    /\ wpc = "get"
    /\ witem = NoPath
    /\ wlast = "none"
    /\ wstab = "none"
    /\ wcall = "none"
    /\ wbefore = 0
    /\ wdrained = 0
    /\ mpc = "running"
    /\ sinceArr = [k \in AllPaths |-> 0]
    /\ tnew = [k \in AllPaths |-> [i \in 1..MaxEvents |-> FALSE]]
    /\ tres = [k \in AllPaths |-> [i \in 1..MaxEvents |-> "none"]]
    /\ lastEv = NoPath

\* wait_for_stability is not running.
InitStabIdle ==
    /\ disk = Absent
    /\ slast = {}
    /\ selapsed = 0
    /\ sres = "none"
    /\ scur = {}
    /\ spolls = 0
    /\ sseen = FALSE
    /\ svanished = FALSE

Init == InitWatch /\ InitStabIdle /\ InitProcIdle /\ InitMetaIdle /\ InitScoreIdle /\ InitParseIdle

Next ==
    \/ FsStep /\ UNCHANGED << stabVars, procVars, fnVars >>
    \/ \E src \in EventPaths :
          OnAnyEvent(src, src \in DirPaths) /\ UNCHANGED << lastEv, stabVars, procVars, fnVars >>
    \/ HandlerLocked /\ UNCHANGED << stabVars, procVars, fnVars >>
    \/ \E k \in AllPaths, i \in 1..MaxEvents : TimerExpire(k, i) /\ UNCHANGED << stabVars, procVars, fnVars >>
    \/ \E k \in AllPaths, i \in 1..MaxEvents : QueueItem(k, i) /\ UNCHANGED << stabVars, procVars, fnVars >>
    \/ Tick /\ UNCHANGED << stabVars, procVars, fnVars >>
    \/ WorkerGet /\ UNCHANGED << stabVars, procVars, fnVars >>
    \/ \E r \in {"stable", "timeout", "raise"} : WorkerStability(r) /\ UNCHANGED << stabVars, procVars, fnVars >>
    \/ \E r \in {"ok", "raise"} : WorkerDispatch(r) /\ UNCHANGED << stabVars, procVars, fnVars >>
    \/ Shutdown /\ UNCHANGED << stabVars, procVars, fnVars >>
    \/ MainExit /\ UNCHANGED << stabVars, procVars, fnVars >>

Spec == Init /\ [][Next]_vars

\* Steps of the observer thread inside on_any_event, of the Timer threads,
\* of the clock and of the worker thread.
ObserverRun == HandlerLocked /\ UNCHANGED << stabVars, procVars, fnVars >>
TimerRun ==
    /\ \E k \in AllPaths, i \in 1..MaxEvents : TimerExpire(k, i) \/ QueueItem(k, i)
    /\ UNCHANGED << stabVars, procVars, fnVars >>
ClockRun == Tick /\ UNCHANGED << stabVars, procVars, fnVars >>
WorkerRun ==
    /\ \/ WorkerGet
       \/ \E r \in {"stable", "timeout", "raise"} : WorkerStability(r)
       \/ \E r \in {"ok", "raise"} : WorkerDispatch(r)
    /\ UNCHANGED << stabVars, procVars, fnVars >>

\* Events accepted in a run of the fair specification.
MaxLiveEvents == 2

\* The steps of Spec, with at most MaxLiveEvents events accepted.
NextLive ==
    \/ FsStep /\ UNCHANGED << stabVars, procVars, fnVars >>
    \/ \E src \in EventPaths :
          /\ Accepted < MaxLiveEvents
          /\ OnAnyEvent(src, src \in DirPaths)
          /\ UNCHANGED << lastEv, stabVars, procVars, fnVars >>
    \/ ObserverRun
    \/ TimerRun
    \/ ClockRun
    \/ WorkerRun
    \/ Shutdown /\ UNCHANGED << stabVars, procVars, fnVars >>
    \/ MainExit /\ UNCHANGED << stabVars, procVars, fnVars >>

\* Every thread that can run keeps running, and time passes; the events,
\* the filesystem and the interrupt of main are free.
FairWatch ==
    /\ Init /\ [][NextLive]_vars
    /\ WF_vars(ObserverRun) /\ WF_vars(TimerRun) /\ WF_vars(ClockRun) /\ WF_vars(WorkerRun)

\* The observer delivers events and on_any_event resolves them; no Timer
\* expires.  lastEv records the path of the event delivered last.
NextKey ==
    \/ FsStep /\ UNCHANGED << stabVars, procVars, fnVars >>
    \/ \E src \in EventPaths :
          OnAnyEvent(src, src \in DirPaths) /\ lastEv' = src /\ UNCHANGED << stabVars, procVars, fnVars >>
    \/ HandlerLocked /\ UNCHANGED << stabVars, procVars, fnVars >>

SpecKey == Init /\ [][NextKey]_vars

\* Lines 218-221: wait_for_stability(path) is called on an item in any state.
InitStab ==
    /\ InitWatch
    /\ disk \in DiskStates
    /\ slast = {}
    /\ selapsed = 0
    /\ sres = "none"
    /\ scur = {}
    /\ spolls = 0
    /\ sseen = DiskExists(disk)
    /\ svanished = FALSE
    /\ InitProcIdle
    /\ InitMetaIdle
    /\ InitScoreIdle
    /\ InitParseIdle

NextStab ==
    \/ \E V \in SUBSET Entries : \E j \in 0..MaxJitter :
          StabPoll(V, j) /\ UNCHANGED << watchVars, procVars, fnVars >>
    \/ StabTimeout /\ UNCHANGED << watchVars, procVars, fnVars >>
    \/ DiskStep /\ UNCHANGED << watchVars, procVars, fnVars >>

SpecStab == InitStab /\ [][NextStab]_vars

\* A step of the thread that called wait_for_stability.
StabRun ==
    /\ \/ \E V \in SUBSET Entries : \E j \in 0..MaxJitter : StabPoll(V, j)
       \/ StabTimeout
    /\ UNCHANGED << watchVars, procVars, fnVars >>

\* The thread that called wait_for_stability keeps running.
FairStab == SpecStab /\ WF_vars(StabRun)

\* The Bundle Processor on the items dropped, with source deletion
\* configured either way.
InitProc ==
    /\ InitWatch
    /\ InitStabIdle
    /\ DELETE_SOURCE_FILES \in BOOLEAN
    /\ InitProcState
    /\ InitMetaIdle
    /\ InitScoreIdle
    /\ InitParseIdle

NextProc ==
    \/ Drop /\ UNCHANGED << watchVars, stabVars, fnVars >>
    \/ \E reply \in ProcReplies : ProcStart(reply) /\ UNCHANGED << watchVars, stabVars, fnVars >>
    \/ ppc = "repair" /\ \E u \in DOMAIN dest \cup {NoFile} :
                            ProcRepair(u) /\ UNCHANGED << watchVars, stabVars, fnVars >>
    \/ ProcDecide /\ UNCHANGED << watchVars, stabVars, fnVars >>
    \/ ProcFinish /\ UNCHANGED << watchVars, stabVars, fnVars >>

SpecProc == InitProc /\ [][NextProc]_vars

\* The Bundle Processor on episode files dropped one after the other.
NextSeries ==
    \/ DropOf(EpisodeItems) /\ UNCHANGED << watchVars, stabVars, fnVars >>
    \/ \E reply \in ProcReplies : ProcStart(reply) /\ UNCHANGED << watchVars, stabVars, fnVars >>
    \/ ppc = "repair" /\ \E u \in DOMAIN dest \cup {NoFile} :
                            ProcRepair(u) /\ UNCHANGED << watchVars, stabVars, fnVars >>
    \/ ProcDecide /\ UNCHANGED << watchVars, stabVars, fnVars >>
    \/ ProcFinish /\ UNCHANGED << watchVars, stabVars, fnVars >>

SpecSeries == InitProc /\ [][NextSeries]_vars

\* search_tvdb_metadata called with any title and hint, on any reply of the
\* lookup service and any scores of the matcher.
InitMeta ==
    /\ InitWatch
    /\ InitStabIdle
    /\ InitProcIdle
    /\ InitScoreIdle
    /\ InitParseIdle
    /\ mtitle \in {"", "film"}
    /\ mtype \in Kinds \cup {NoHint}
    /\ mreply \in Replies
    /\ mscores \in [Names -> Confidences]
    /\ mresult = NoRecord
    /\ mqueried = FALSE
    /\ mstep = "call"

NextMeta == MetaCall /\ UNCHANGED << watchVars, stabVars, procVars, scoreVars, parseVars >>

SpecMeta == InitMeta /\ [][NextMeta]_vars

\* get_quality_score called on any name, on a file that exists or not and
\* that ffprobe can or cannot read.
InitScore ==
    /\ InitWatch
    /\ InitStabIdle
    /\ InitProcIdle
    /\ InitMetaIdle
    /\ InitParseIdle
    /\ qname \in QualityNames
    /\ qexists \in BOOLEAN
    /\ qprobe \in ProbeHeights
    /\ qresult = 0
    /\ qpc = "call"

NextScore == ScoreCall /\ UNCHANGED << watchVars, stabVars, procVars, metaVars, parseVars >>

SpecScore == InitScore /\ [][NextScore]_vars

\* parse_filename called on a file name or a directory name.
InitParse ==
    /\ InitWatch
    /\ InitStabIdle
    /\ InitProcIdle
    /\ InitMetaIdle
    /\ InitScoreIdle
    /\ fname \in ParsedNames(MaxPieces)
    /\ fresult = NoParse
    /\ fpc = "call"

NextParse == ParseCall /\ UNCHANGED << watchVars, stabVars, procVars, metaVars, scoreVars >>

SpecParse == InitParse /\ [][NextParse]_vars

\* Tags after the video name in a subtitle's name, and subtitles of a bundle.
MaxTags == 2
MaxSubs == 2

\* The two videos of a bundle whose subtitles are processed, and the
\* subtitles: a video's name followed by tags, or a name of no video.
SubVideos(flow) ==
    { [ stem    |-> (IF flow = "series" THEN <<"film", "s01e01">> ELSE <<"film">>) \o e.parts,
        ext     |-> ".mkv",
        content |-> e.content ] :
      e \in { [parts |-> <<>>, content |-> [size |-> 1, h |-> 720]],
              [parts |-> <<"extended">>, content |-> [size |-> 2, h |-> 1080]] } }
SubTags == {"en", "eng", "forced", "sdh", "1080p"}
TagSeqs == UNION { [1..n -> SubTags] : n \in 0..MaxTags }
Subtitles(flow) ==
    [ stem    : { v.stem \o tags : v \in SubVideos(flow), tags \in TagSeqs } \cup {<<"other", "en">>},
      ext     : {".srt"},
      content : {[size |-> 1, h |-> 0]} ]
SubtitleSeqs(flow) ==
    UNION { { s \in [1..n -> Subtitles(flow)] : \A i, j \in 1..n : i # j => s[i] # s[j] } :
            n \in 0..MaxSubs }

\* The processor at the end of the video loop of a flow (lines 128 and
\* 201): both videos of the bundle are in the destination, delivered by
\* this run (mapped) or by an earlier one (skipped by this run), and the
\* subtitles of the bundle are still to be processed.
InitSub ==
    /\ InitWatch
    /\ InitStabIdle
    /\ InitMetaIdle
    /\ InitScoreIdle
    /\ InitParseIdle
    /\ DELETE_SOURCE_FILES = FALSE
    /\ pflow \in Kinds
    /\ phint = pflow
    /\ pfault = "none"
    /\ subtitle_files \in SubtitleSeqs(pflow)
    /\ \E mapped \in SUBSET SubVideos(pflow) :
          /\ final_media_paths = [v \in mapped |-> FinalPath(pflow, v)]
          /\ dstart = [p \in { FinalPath(pflow, v) : v \in SubVideos(pflow) \ mapped } |->
                          (CHOOSE v \in SubVideos(pflow) : FinalPath(pflow, v) = p).content]
    /\ dest = [p \in { FinalPath(pflow, v) : v \in SubVideos(pflow) } |->
                  (CHOOSE v \in SubVideos(pflow) : FinalPath(pflow, v) = p).content]
    /\ pitem = [dir |-> TRUE, name |-> <<"film">>,
                files |-> [i \in 1..2 |-> CHOOSE v \in SubVideos(pflow) : v.content.size = i]
                          \o subtitle_files]
    /\ psrc = pitem
    /\ ppc = "finish"
    /\ video_files = <<>>
    /\ extra_files = <<>>
    /\ pout = "none"
    /\ nruns = 1
    /\ prepeat = FALSE

NextSub == ProcFinish /\ UNCHANGED << watchVars, stabVars, fnVars >>

SpecSub == InitSub /\ [][NextSub]_vars

-----------------------------------------------------------------------------
(* Debounce and queue properties (Spec).                                    *)

Armed(k, i) == tstate[k][i] \in {"waiting", "firing"}
InQueue(k) == \E j \in 1..Len(queue) : queue[j] = k
Occurrences(k) == Cardinality({ j \in 1..Len(queue) : queue[j] = k })

\* Timer i of item k runs its callback in this step.
Fires(k, i) == tstate[k][i] \in {"firing", "zombie"} /\ tstate'[k][i] = "done"

\* Timers i < j of item k belong to one burst: every event after i's, up to
\* j's, came less than PROCESS_DELAY after the one before it.
SameBurst(k, i, j) == \A m \in (i + 1)..j : ~tnew[k][m]

\* C1: an item is put on the queue exactly once per burst of events.  This
\* is the at-most-once half: no two Timers of one burst both put the item.
\* An event's time is the moment on_any_event starts its Timer.
C1_NeverTwicePerBurst ==
    \A k \in AllPaths : \A i, j \in 1..MaxEvents :
        (i < j /\ j <= nev[k] /\ SameBurst(k, i, j))
            => ~(tres[k][i] = "put" /\ tres[k][j] = "put")

\* C2: a callback puts its item only when PROCESS_DELAY has passed since the
\* item's last accepted event, so only the Timer of that last event puts it.
C2_EnqueueAfterQuiet ==
    [][ \A k \in AllPaths : \A i \in 1..MaxEvents :
          (Fires(k, i) /\ tres'[k][i] = "put")
              => (i = nev[k] /\ sinceArr[k] >= PROCESS_DELAY) ]_vars

\* C3: the queue never holds an item path twice.
C3_NoDuplicateInQueue ==
    \A k \in AllPaths : Occurrences(k) <= 1

\* C3 witness: a callback found its item already waiting and did not put it.
C3_Witness ==
    \E k \in AllPaths : \E i \in 1..MaxEvents :
        tres[k][i] = "dup" /\ InQueue(k) /\ Len(queue) >= 2

\* C4: at most one armed Timer per item, and self.timers holds an entry for
\* the item exactly when that Timer exists (and the entry is that Timer).
C4_OneArmedTimerInMap ==
    \A k \in AllPaths :
        /\ Cardinality({ i \in 1..MaxEvents : Armed(k, i) }) <= 1
        /\ (timers[k] # 0) <=> (\E i \in 1..MaxEvents : Armed(k, i))
        /\ timers[k] # 0 => Armed(k, timers[k])

\* C5: a callback puts its item exactly when the path exists and is not in
\* the queue, leaves the queue alone otherwise, and always ends with no
\* entry for the item in self.timers.
C5_FireEffect ==
    [][ \A k \in AllPaths : \A i \in 1..MaxEvents :
          Fires(k, i) =>
            /\ timers'[k] = 0
            /\ queue' = IF Exists(k) /\ ~InQueue(k) THEN Append(queue, k) ELSE queue
            /\ (~Exists(k) => queue' = queue) ]_vars

\* C5 witness: callbacks have met all three cases: put, already queued, gone.
C5_Witness ==
    /\ \E k \in AllPaths : \E i \in 1..MaxEvents : tres[k][i] = "gone" /\ timers[k] = 0
    /\ \E k \in AllPaths : \E i \in 1..MaxEvents : tres[k][i] = "put"
    /\ \E k \in AllPaths : \E i \in 1..MaxEvents : tres[k][i] = "dup"

\* C10: no fault of an item ends the worker loop: the worker thread is
\* never dead, every iteration, also one that raised, ends back at get(),
\* and the loop is left only by taking the sentinel off the queue.
C10_WorkerSurvivesFaults ==
    /\ [](wpc \in {"get", "stability", "dispatch", "stopped"})
    /\ [][(wpc \in {"stability", "dispatch"} /\ wpc' \notin {"stability", "dispatch"})
            => wpc' = "get"]_vars
    /\ [][(wpc # "stopped" /\ wpc' = "stopped")
            => (wpc = "get" /\ queue # <<>> /\ Head(queue) = None)]_vars

\* C10 witness: after a failed item the worker is handling the next one.
C10_Witness ==
    wlast = "failed" /\ wpc = "dispatch" /\ witem # None

\* The step in which the worker calls the Bundle Processor.
Invokes == wcall = "none" /\ wcall' # "none"

\* C11: the Bundle Processor is called only after wait_for_stability gave
\* true for the dequeued item, at most once per dequeue, process_bundle for
\* a directory and process_single_file for a regular file; when it gave
\* false (or raised) neither is called in that iteration.
C11_ProcessOnlyWhenStable ==
    /\ [][Invokes => (wpc = "dispatch" /\ wstab = "true" /\ witem # None
                       /\ (wcall' = "bundle" <=> IsDir(witem))
                       /\ (wcall' = "file" <=> IsFile(witem)))]_vars
    /\ [][(wcall # "none" /\ wcall' # wcall) => (wpc = "get" /\ wcall' = "none")]_vars
    /\ [](wstab \in {"false", "raised"} => wcall = "none")
    /\ [](wpc = "dispatch" => wstab = "true")

\* C11 witness: the iteration of a stable directory has ended after its
\* one call of process_bundle.
C11_Witness ==
    wcall = "bundle" /\ wlast = "bundle" /\ wstab = "true" /\ wpc = "get"

\* The step in which wait_for_stability gives false for the dequeued item.
TimesOut == wpc = "stability" /\ wstab' = "false"

\* C12: after a stability timeout the item is abandoned: that step calls no
\* processor, puts nothing on the queue and arms no Timer, the worker is
\* back at get(), and no step of the worker ever puts an item on the queue:
\* the item comes back only through the callback of a Timer, which only an
\* event for its key arms.
C12_NoRetryAfterTimeout ==
    /\ [][TimesOut => (/\ queue' = queue /\ timers' = timers /\ tstate' = tstate
                        /\ nev' = nev /\ wcall' = "none" /\ wpc' = "get")]_vars
    /\ [][\A k \in AllPaths :
            (Occurrences(k) < Occurrences(k)') =>
                \E i \in 1..MaxEvents : tres[k][i] = "none" /\ tres'[k][i] = "put"]_vars
    /\ [][\A k \in AllPaths : nev'[k] > nev[k] => (hpc = "lock" /\ ev = k)]_vars

\* C12 witness: an item that timed out was put on the queue again by a
\* later Timer and the worker is polling it once more.
C12_Witness ==
    /\ wlast = "timeout" /\ wpc = "stability" /\ wstab = "none"
    /\ \E i \in 2..MaxEvents : tres[witem][i] = "put" /\ tres[witem][1] = "put"

-----------------------------------------------------------------------------
(* Key resolution (SpecKey).                                               *)

UnderRoot(p) == Len(p) > Len(SOURCE_DIR) /\ IsPrefix(SOURCE_DIR, p)
TopLevel(p) == SubSeq(p, 1, Len(SOURCE_DIR) + 1)

\* C6: an accepted event is filed under the top-level item of its path (the
\* path itself when it lies directly under the root), Timers exist only for
\* top-level items, and an event from outside the root is never accepted.
C6_KeyIsTopLevelItem ==
    /\ hpc = "lock" => (UnderRoot(lastEv) /\ ev = TopLevel(lastEv))
    /\ \A k \in AllPaths : nev[k] > 0 => (UnderRoot(k) /\ k = TopLevel(k))
    /\ \A k \in AllPaths : timers[k] # 0 => nev[k] > 0

\* C6 witness: an event two levels down in a bundle is about to re-arm the
\* Timer that an earlier event of the bundle started.
C6_Witness ==
    /\ hpc = "lock"
    /\ Len(lastEv) = Len(SOURCE_DIR) + 3
    /\ timers[ev] # 0
    /\ \E k \in AllPaths : k # ev /\ Len(k) = Len(SOURCE_DIR) + 1 /\ timers[k] # 0

-----------------------------------------------------------------------------
(* Stability detector properties (SpecStab, FairStab).                      *)

\* What a snapshot of the item d holds: every entry that is there, with its size.
Contents(d) == { <<e, d[e]>> : e \in { x \in Entries : d[x] >= 0 } }

\* This step is a get_snapshot call: it returns from wait_for_stability or
\* is followed by the sleep.
Polls == sres = "none" /\ (sres' \in {"true", "raised"} \/ selapsed' # selapsed)

\* C7: wait_for_stability returns True only on a snapshot that is not empty
\* and equals the snapshot of the poll before it: never on the first poll.
C7_TrueOnlyOnRepeat ==
    [][ (sres = "none" /\ sres' = "true")
          => (spolls >= 1 /\ scur' # {} /\ scur' = scur) ]_vars

\* C7 witness: a directory of two files was declared stable.
C7_Witness ==
    sres = "true" /\ Cardinality(scur) = 2 /\ spolls = 2

\* C8: wait_for_stability terminates; it returns False only once the
\* timeout is reached, and takes no snapshot after that.
C8_Terminates ==
    /\ <>(sres # "none")
    /\ [](sres = "false" => selapsed >= BUNDLE_STABILITY_TIMEOUT)
    /\ [][Polls => selapsed < BUNDLE_STABILITY_TIMEOUT]_vars
    /\ [][(sres = "none" /\ selapsed >= BUNDLE_STABILITY_TIMEOUT) => sres' \in {"none", "false"}]_vars

\* C8 witness: the call timed out on an item that was there and kept changing.
C8_Witness ==
    sres = "false" /\ selapsed >= BUNDLE_STABILITY_TIMEOUT /\ scur # {}

\* C9: a vanishing file or item is no error: nothing is raised, the
\* snapshot holds exactly what is still there (nothing for a path that does
\* not exist), and an item that was absent throughout is not declared stable.
C9_VanishingIsNoError ==
    /\ [](sres # "raised")
    /\ [][Polls => (sres' # "raised" /\ scur' = Contents(disk'))]_vars
    /\ [](~sseen => (sres \in {"none", "false"} /\ scur = {}))

\* C9 witness: one file vanished under a snapshot that still lists another.
C9_Witness ==
    svanished /\ scur # {} /\ sres = "none"

-----------------------------------------------------------------------------
(* Delivery properties (SpecProc).                                          *)

\* A run of a flow has just ended.
FlowDone == ppc = "done" /\ pout \in {"movie", "series"}

\* The videos of edition e in a destination directory.
VideosOfEdition(d, dir, e) ==
    { p \in DOMAIN d : p.dir = dir /\ is_video_file(p.ext) /\ EditionOf(p.name) = e }

\* C13: with DELETE_SOURCE_FILES true, every call of process_bundle or
\* process_single_file that has returned, after a flow or after abandoning
\* the item, has deleted the source item.
C13_SourceDeletedWhenEnabled ==
    (DELETE_SOURCE_FILES /\ ppc = "done") => psrc = NoItem

\* C14: with DELETE_SOURCE_FILES false no step of the Bundle Processor
\* changes the item under the watch root.
C14_SourceUntouchedWhenDisabled ==
    [][(~DELETE_SOURCE_FILES /\ ppc' # "idle") => psrc' = psrc]_vars

\* C14 witness: with deletion disabled a flow has delivered from a bundle
\* that is still under the watch root.
C14_Witness ==
    ~DELETE_SOURCE_FILES /\ FlowDone /\ dest # EmptyMap /\ psrc = pitem /\ psrc.dir

\* C15: between runs the destination holds at most one video for each
\* directory of the program (its movie directory, its season) and edition.
C15_OneVideoPerEdition ==
    ppc \in {"idle", "done"} =>
        \A dir \in {MovieDir, SeasonDir} : \A p \in DOMAIN dest :
            Cardinality(VideosOfEdition(dest, dir, EditionOf(p.name))) <= 1

\* The destination d holds, under the names of v's program (episode), a
\* video of v's edition that scores at least what v scores.
HoldsSameEditionAtLeast(d, flow, v) ==
    \E p \in Listing(d, DestDir(flow), DestBase(flow, v)) :
        /\ is_video_file(p.ext)
        /\ EditionOf(p.name) = EditionOf(v.stem)
        /\ get_quality_score(p.name, d[p]) >= get_quality_score(v.stem, v.content)

\* C16: at the versioning decision of either flow the incoming video is
\* skipped (gets no final path) exactly when the destination holds a video
\* of the same edition, no tag counting as Theatrical, that scores at least
\* as much; a file of another edition never makes it skipped.
C16_SkipExactlyOnSameEdition ==
    [][(ppc = "decide" /\ ppc' # "decide") =>
          ((Head(video_files) \notin DOMAIN final_media_paths')
               <=> HoldsSameEditionAtLeast(dest, pflow, Head(video_files)))]_vars

\* C16 witness: a run skipped one video of its bundle while the directory
\* held a higher-scoring video of another edition, and delivered another.
C16_Witness ==
    /\ FlowDone /\ pitem.dir
    /\ \E i, j \in 1..Len(pitem.files) :
          /\ IsMain(pitem.files[i]) /\ pitem.files[i] \notin DOMAIN final_media_paths
          /\ pitem.files[j] \in DOMAIN final_media_paths
          /\ \E p \in DOMAIN dest :
                /\ p.dir = DestDir(pout) /\ is_video_file(p.ext)
                /\ EditionOf(p.name) # EditionOf(pitem.files[i].stem)
                /\ get_quality_score(p.name, dest[p])
                       > get_quality_score(pitem.files[i].stem, pitem.files[i].content)

\* C17: edition repair: when the movie directory held exactly one file,
\* without edition and of size S, and the one incoming video carries an
\* edition and has size S, the directory holds exactly one file after the
\* run, and that file carries the edition.
C17_RepairLeavesOneFile ==
    (/\ ppc = "done" /\ pout = "movie" /\ Len(pitem.files) = 1
     /\ get_edition_info(pitem.files[1].stem) # NoEdition
     /\ Cardinality(DOMAIN dstart) = 1
     /\ \A u \in DOMAIN dstart :
           /\ u.dir = MovieDir /\ is_video_file(u.ext)
           /\ get_edition_info(u.name) = NoEdition
           /\ dstart[u].size = pitem.files[1].content.size)
    => (/\ Cardinality(DOMAIN dest) = 1
        /\ \A p \in DOMAIN dest :
              get_edition_info(p.name) = get_edition_info(pitem.files[1].stem))

\* C18: a second run of a flow on the same source item leaves the
\* destination exactly as the first run left it.
C18_SecondRunChangesNothing ==
    (FlowDone /\ prepeat) => dest = dstart

\* C19: no step changes the content of a destination path that exists
\* before and after it: copies and repair renames go to free paths only.
C19_NeverOverwrites ==
    [][\A p \in DOMAIN dest \cap DOMAIN dest' : dest'[p] = dest[p]]_vars

\* C19 witness: a video was mapped to a final path that held other content,
\* and that content is still there after the run.
C19_Witness ==
    /\ FlowDone
    /\ \E v \in DOMAIN final_media_paths :
          /\ final_media_paths[v] \in DOMAIN dest
          /\ final_media_paths[v] \in DOMAIN dstart
          /\ dest[final_media_paths[v]] # v.content
          /\ dest[final_media_paths[v]] = dstart[final_media_paths[v]]

\* C20: process_bundle abandons a bundle at the classify step exactly when
\* the bundle holds no video at all, main or extra.
C20_AbandonsExactlyWithoutVideo ==
    (ppc = "done" /\ pitem.dir) =>
        ((pout = "novideo") <=> (\A i \in 1..Len(pitem.files) : ~is_video_file(pitem.files[i].ext)))

\* C21: after a run of the movie flow every Extra video of the bundle is
\* in the destination, in the subdirectory named for its extras category.
C21_ExtrasDelivered ==
    (ppc = "done" /\ pout = "movie") =>
        \A i \in 1..Len(extra_files) : ExtraPath(extra_files[i]) \in DOMAIN dest

\* C22: a run is hinted "series" exactly when the item's own name parses a
\* season or a video file of the bundle, main or extra, parses one, 0
\* included; otherwise it is hinted "movie".
C22_SeriesHintExactlyOnSeason ==
    phint # "none" =>
        (phint = "series" <=>
            \/ ParseSeason(pitem.name) # NoNum
            \/ \E i \in 1..Len(pitem.files) :
                  is_video_file(pitem.files[i].ext) /\ ParseSeason(pitem.files[i].stem) # NoNum)

-----------------------------------------------------------------------------
(* Metadata resolution properties (SpecMeta, SpecProc).                     *)

\* The results of the reply that pass the type filter, the names they are
\* listed under, and the best score among these names.
Candidates == { i \in 1..Len(mreply.results) :
                  mtype = NoHint \/ mreply.results[i].type = mtype }
ChoiceNames == ({ mreply.results[i].name : i \in Candidates }
                \cup { mreply.results[i].eng : i \in Candidates }) \ {NoName}
BestConfidence == Max({ mscores[n] : n \in ChoiceNames })
KeyedBy(n) == Max({ i \in Candidates : n \in {mreply.results[i].name, mreply.results[i].eng} })

\* C23: search_tvdb_metadata returns a record exactly when the title is
\* not empty, a result survives the type filter, a surviving result has a
\* name, and the best score of these names is at least
\* CONFIDENCE_THRESHOLD; the record is the result the best-scoring name is
\* a key of, and is of the hinted type; with an empty title nothing is
\* returned and the lookup service is not queried.
C23_RecordIffConfidentMatch ==
    mstep = "returned" =>
        /\ mresult # Raised
        /\ (mresult # NoRecord) <=>
               /\ mtitle # ""
               /\ Candidates # {}
               /\ ChoiceNames # {}
               /\ BestConfidence >= CONFIDENCE_THRESHOLD
        /\ (mresult # NoRecord) =>
               /\ \E n \in ChoiceNames :
                     mscores[n] = BestConfidence /\ mresult.idx = KeyedBy(n)
               /\ mtype # NoHint => mresult.type = mtype
        /\ mtitle = "" => (mresult = NoRecord /\ ~mqueried)

\* C23 witness: a record was returned whose best name scored exactly the
\* threshold, from a reply that also held a result of the other type.
C23_Witness ==
    /\ mstep = "returned" /\ mresult # NoRecord /\ mtype # NoHint
    /\ BestConfidence = CONFIDENCE_THRESHOLD
    /\ \E i \in 1..Len(mreply.results) : mreply.results[i].type # mtype

\* C24: a failure of the lookup service (the client cannot be built, the
\* search call fails, a result is malformed) never leaves
\* search_tvdb_metadata as an exception: the processor sees an empty
\* result and abandons the item with the destination as it was.
C24_LookupFailureAbandons ==
    /\ pout # "raised"
    /\ pfault # "none" => (ppc = "done" /\ pout = "nometa" /\ dest = dstart)

\* C24 witness: the lookup service failed on an item that was dropped
\* after a delivery, and the destination still holds what was delivered.
C24_Witness ==
    pfault \in Faults /\ ppc = "done" /\ pout = "nometa" /\ dest # EmptyMap

-----------------------------------------------------------------------------
(* Subtitle properties (SpecSub).                                           *)

\* The mapped videos whose base name the subtitle's base name starts with.
PrefixVideos(sub) == { v \in DOMAIN final_media_paths : IsPrefix(v.stem, sub.stem) }

\* The one of them with the longest base name.
LongestPrefixVideo(sub) ==
    CHOOSE v \in PrefixVideos(sub) : \A w \in PrefixVideos(sub) : Len(w.stem) <= Len(v.stem)

\* C25: process_subtitles copies each subtitle next to the mapped video
\* with the longest base name that is a prefix of the subtitle's base name,
\* and copies nothing for a subtitle without such a video, a skipped video
\* being in no map: the files the step adds are exactly the final paths of
\* the subtitles that have a mapped prefix video, each beside that video.
C25_SubtitleFollowsLongestPrefix ==
    [][ppc = "finish" =>
          DOMAIN dest' = DOMAIN dest \cup
              { FinalSubPath(subtitle_files[i], LongestPrefixVideo(subtitle_files[i]),
                             final_media_paths) :
                i \in { j \in 1..Len(subtitle_files) : PrefixVideos(subtitle_files[j]) # {} } }]_vars

\* C25 witness: both videos were mapped, a subtitle named after the longer
\* one was copied beside it, and a subtitle of no video was not copied.
C25_Witness ==
    /\ ppc = "done" /\ Cardinality(DOMAIN final_media_paths) = 2
    /\ \E i, j \in 1..Len(subtitle_files) :
          /\ Cardinality(PrefixVideos(subtitle_files[i])) = 2
          /\ FinalSubPath(subtitle_files[i], LongestPrefixVideo(subtitle_files[i]),
                          final_media_paths) \in DOMAIN dest
          /\ PrefixVideos(subtitle_files[j]) = {}
    /\ Cardinality(DOMAIN dest) = 3

\* The languages the tags resolve (table lookup, else the two or three
\* letters of the tag itself), "en" when none does, and the forced/sdh
\* suffixes the tags give, the empty one when none does.
LangsOf(tags) ==
    LET r == { LangOfPart(tags[k]) : k \in 1..Len(tags) } \ {NoEdition} IN
    IF r = {} THEN {"en"} ELSE r
SuffixesOf(tags) ==
    LET f == { tags[k] : k \in 1..Len(tags) } \cap ForcedTags IN
    IF f = {} THEN {<<>>} ELSE { <<x>> : x \in f }

\* The path p is the delivered video of sub followed by a language and a
\* suffix of sub's tags and by sub's extension.
NamedAfter(p, sub) ==
    LET v == LongestPrefixVideo(sub)
        tags == SubSeq(sub.stem, Len(v.stem) + 1, Len(sub.stem))
    IN  /\ p.dir = final_media_paths[v].dir
        /\ p.ext = sub.ext
        /\ \E lang \in LangsOf(tags) : \E suffix \in SuffixesOf(tags) :
              p.name = final_media_paths[v].name \o <<lang>> \o suffix

\* C26: every subtitle with a matched video has, after the subtitle step, a
\* file named {dest_video_basename}.{lang}[.forced|.sdh]{subtitle_ext}, its
\* tags deciding lang (default "en") and the suffix, every file the step
\* adds has such a name, and the tags "en", "forced" on the subtitle of the
\* video delivered as "Film (2020) - s01e01" give
\* "Film (2020) - s01e01.en.forced.srt".
C26_SubtitleName ==
    [][ppc = "finish" =>
         LET matched == { j \in 1..Len(subtitle_files) : PrefixVideos(subtitle_files[j]) # {} } IN
         /\ \A i \in matched : \E p \in DOMAIN dest' : NamedAfter(p, subtitle_files[i])
         /\ \A p \in DOMAIN dest' \ DOMAIN dest :
                \E i \in matched : NamedAfter(p, subtitle_files[i])
         /\ \A i \in matched :
                (/\ subtitle_files[i].stem = <<"film", "s01e01", "en", "forced">>
                 /\ \E v \in DOMAIN final_media_paths : v.stem = <<"film", "s01e01">>)
                => [ dir |-> SeasonDir, name |-> <<"Film (2020)", "s01e01", "en", "forced">>,
                     ext |-> ".srt" ] \in DOMAIN dest']_vars

\* C26 witness: the subtitle film.s01e01.en.forced.srt was copied beside
\* the delivered episode, and one without tags was copied as "en".
C26_Witness ==
    /\ ppc = "done" /\ pflow = "series"
    /\ \E i, j \in 1..Len(subtitle_files) :
          /\ subtitle_files[i].stem = <<"film", "s01e01", "en", "forced">>
          /\ subtitle_files[j].stem = <<"film", "s01e01">>
    /\ [ dir |-> SeasonDir, name |-> <<"Film (2020)", "s01e01", "en", "forced">>,
         ext |-> ".srt" ] \in DOMAIN dest
    /\ [ dir |-> SeasonDir, name |-> <<"Film (2020)", "s01e01", "en">>,
         ext |-> ".srt" ] \in DOMAIN dest

-----------------------------------------------------------------------------
(* Quality score properties (SpecScore).                                    *)

\* The source bonus of a name: the first of remux, bluray, web-dl/webrip,
\* hdtv that the name contains.
SourceBonus(name) ==
    IF Has(name, "remux") THEN 50
    ELSE IF Has(name, "bluray") THEN 45
    ELSE IF Has(name, "web-dl") \/ Has(name, "webrip") THEN 40
    ELSE IF Has(name, "hdtv") THEN 20
    ELSE 0

\* The names of the three classes of the quality ordering.
Is2160pRemux(name) == Has(name, "2160p") /\ Has(name, "remux")
Is1080pBluray(name) ==
    Has(name, "1080p") /\ Has(name, "bluray") /\ ~Has(name, "2160p") /\ ~Has(name, "remux")
IsOnly720p(name) ==
    Has(name, "720p") /\ \A i \in 1..Len(name) : name[i] \in {"720p", "film"}

\* C27: the score of a file that exists is a resolution tier in
\* {0,100,200,300,400} plus the source bonus of its name, the bonus being
\* that of the first match in the order remux (50), bluray (45),
\* web-dl/webrip (40), hdtv (20), else 0; a name with "2160p" and "remux"
\* scores more than every name with "1080p" and "bluray", which scores
\* more than every name with only "720p", whatever the probe sees.
C27_ScoreIsTierPlusBonus ==
    (qpc = "returned" /\ qexists) =>
        /\ qresult - SourceBonus(qname) \in {0, 100, 200, 300, 400}
        /\ \A other \in QualityNames : \A h \in ProbeHeights :
              LET score == get_quality_score(other, [size |-> 1, h |-> h]) IN
              /\ (Is2160pRemux(qname) /\ Is1080pBluray(other)) => qresult > score
              /\ (Is1080pBluray(qname) /\ IsOnly720p(other)) => qresult > score

\* C27 witness: a name with 1080p and bluray, and with hdtv before bluray,
\* scored 345.
C27_Witness ==
    /\ qpc = "returned" /\ qexists /\ Is1080pBluray(qname)
    /\ Len(qname) = 3 /\ qname[1] = "hdtv" /\ qresult = 345

\* The name carries no resolution keyword, so that ffprobe is asked.
Unnamed(name) ==
    ~(Has(name, "2160p") \/ Has(name, "4k") \/ Has(name, "1080p") \/ Has(name, "720p")
      \/ Has(name, "480p") \/ Has(name, "sd"))

\* C28: when ffprobe fails on a file whose name gives no resolution,
\* get_quality_score still returns a score to its caller: tier 0 plus the
\* source bonus of the name.
C28_ProbeFailureGivesBonusOnly ==
    (qpc = "returned" /\ qexists /\ qprobe = ProbeFails /\ Unnamed(qname)) =>
        (qresult # ProbeFails /\ qresult = 0 + SourceBonus(qname))

\* C28 witness: ffprobe failed on film.bluray and the score is 45.
C28_Witness ==
    /\ qpc = "returned" /\ qexists /\ qprobe = ProbeFails
    /\ qname = <<"film", "bluray">> /\ qresult = 45

-----------------------------------------------------------------------------
(* Series flow and shutdown properties (SpecProc, Spec).                    *)

\* C29: in series flow a video whose name gives no season or no start
\* episode is skipped: the step copies nothing and maps nothing for it,
\* and the loop goes on with the next video of the bundle.
C29_UnparsedEpisodeSkipped ==
    [][(/\ ppc = "repair" /\ pflow = "series"
        /\ \/ ParseSeason(Head(video_files).stem) = NoNum
           \/ ParseStartEpisode(Head(video_files).stem) = NoNum)
       => /\ dest' = dest
          /\ final_media_paths' = final_media_paths
          /\ video_files' = Tail(video_files)
          /\ ppc' = IF Tail(video_files) = <<>> THEN "finish" ELSE "repair"]_vars

\* C29 witness: a series run skipped the first video of its bundle, which
\* has no season, and delivered the episode that follows it.
C29_Witness ==
    /\ ppc = "done" /\ pout = "series" /\ pitem.dir /\ Len(pitem.files) = 2
    /\ IsMain(pitem.files[1]) /\ ParseSeason(pitem.files[1].stem) = NoNum
    /\ pitem.files[1] \notin DOMAIN final_media_paths
    /\ pitem.files[2] \in DOMAIN final_media_paths
    /\ final_media_paths[pitem.files[2]] \in DOMAIN dest

\* C30: the worker stops exactly when it takes the sentinel off the queue
\* and handles nothing after that; items leave the queue at its head and
\* enter it at its tail, so that when the worker stops the iteration of
\* every item put before the sentinel has ended, in the order of the puts.
C30_SentinelDrainsAndStops ==
    /\ [](wpc = "stopped" => wbefore = 0)
    /\ [][(wpc # "stopped" /\ wpc' = "stopped") => (witem' = None /\ wbefore = 0)]_vars
    /\ [][wpc = "stopped" =>
             (/\ wpc' = "stopped" /\ witem' = witem /\ wlast' = wlast
              /\ wcall' = wcall /\ wstab' = wstab /\ wdrained' = wdrained
              /\ Len(queue') >= Len(queue))]_vars
    /\ [][Len(queue') < Len(queue) =>
             (wpc = "get" /\ witem' = Head(queue) /\ queue' = Tail(queue))]_vars
    /\ [][Len(queue') > Len(queue) =>
             (Len(queue') = Len(queue) + 1 /\ SubSeq(queue', 1, Len(queue)) = queue)]_vars

\* C30 witness: the sentinel was put behind two items whose iterations had
\* not ended; both were handled and the worker has stopped.
C30_Witness ==
    wpc = "stopped" /\ wdrained = 2 /\ wbefore = 0 /\ mpc = "joining"

-----------------------------------------------------------------------------
(* Shutdown, ordering and liveness of the queue (Spec, FairWatch).          *)

\* C31: when main has returned no Timer is waiting or about to call back,
\* and once the sentinel has been put every item in the queue is ahead of
\* a sentinel (none is behind the last one, none is left when the worker
\* has taken it).
C31_NothingAcceptedAtShutdown ==
    /\ mpc = "exited" => \A k \in AllPaths, i \in 1..MaxEvents : ~Armed(k, i)
    /\ mpc # "running" =>
          \A j \in 1..Len(queue) :
              queue[j] # None => \E l \in (j + 1)..Len(queue) : queue[l] = None

\* C34: the single worker holds one item at a time: while it is in the
\* stability check or the processor of an item it takes no other item and
\* everything queued stays queued in its order; an item leaves the queue
\* only at the head, when the worker is at the top of its loop, so items
\* are handled in the order of the puts.
C34_OneItemAtATimeInOrder ==
    /\ [][(wpc = "stability" \/ wpc = "dispatch") =>
             (/\ witem' = witem
              /\ Len(queue') >= Len(queue)
              /\ SubSeq(queue', 1, Len(queue)) = queue)]_vars
    /\ [][queue' # queue /\ Len(queue') <= Len(queue) =>
             (/\ wpc = "get" /\ wpc' \in {"stability", "stopped"}
              /\ witem' = Head(queue) /\ queue' = Tail(queue))]_vars
    /\ [][witem' # witem => (queue # <<>> /\ witem' = Head(queue) /\ wpc = "get")]_vars

\* C34 witness: the worker is polling one item while another item waits in
\* the queue.
C34_Witness ==
    /\ wpc = "stability" /\ queue # <<>>
    /\ Head(queue) # None /\ Head(queue) # witem /\ witem # NoPath

\* C36: the queue never holds a key twice, and the membership test of
\* queue_item looks at the queue alone: the callback of a Timer for a key
\* that exists and is not waiting in the queue appends the key, also while
\* the worker is polling or processing that very key.
C36_SuppressionCoversQueueOnly ==
    /\ [](\A k \in AllPaths : Occurrences(k) <= 1)
    /\ [][\A k \in AllPaths, i \in 1..MaxEvents :
             (/\ tstate[k][i] \in {"firing", "zombie"} /\ tstate'[k][i] = "done"
              /\ Exists(k) /\ ~InQueue(k)
              /\ witem = k /\ wpc \in {"stability", "dispatch"})
             => queue' = Append(queue, k)]_vars

\* C36 witness: the key the worker is handling is at the head of the queue
\* again, so the worker handles it twice in a row.
C36_Witness ==
    /\ wpc \in {"stability", "dispatch"} /\ witem \in AllPaths
    /\ queue # <<>> /\ Head(queue) = witem
    /\ \E i \in 1..MaxEvents : tres[witem][i] = "put" /\ i > 1

\* Work for the key is outstanding: a Timer of it is waiting or has its
\* callback ahead, the key is in the queue, or the worker holds it.
Pending(k) ==
    \/ \E i \in 1..MaxEvents : tstate[k][i] \in {"waiting", "firing", "zombie"}
    \/ InQueue(k)
    \/ witem = k /\ wpc \in {"stability", "dispatch"}

-----------------------------------------------------------------------------
(* Type hint and series flow (SpecProc, SpecSeries).                        *)

\* C37: the hint given to the resolver is always "movie" or "series", and
\* the flow that runs is the flow of the hint: the record's type equals the
\* hint whenever a flow is running or has run.
C37_FlowIsTheHintedFlow ==
    (ppc \in {"repair", "decide", "finish"} \/ pout \in Kinds)
        => (phint \in Kinds /\ pflow = phint)

\* C37 witness: a run hinted "series" has ended in the series flow and
\* delivered a video, after a run hinted "movie" on another item.
C37_Witness ==
    /\ ppc = "done" /\ pout = "series" /\ phint = "series" /\ nruns = 2
    /\ \E v \in DOMAIN final_media_paths : final_media_paths[v] \in DOMAIN dest
    /\ \E p \in DOMAIN dest : p.dir = MovieDir

\* The destination files of exactly the episode key and the edition of the
\* incoming video v: the final name of v, in any container.
SameKeyAndEdition(d, v) ==
    { p \in DOMAIN d : p.dir = SeasonDir /\ p.name = FinalPath("series", v).name }

\* The series flow decides on the video at the head of video_files.
DecidesEpisode ==
    ppc = "decide" /\ pflow = "series" /\ ppc' # "decide"

\* C38: when the series flow decides on a video and the destination holds
\* files of its episode key and edition, all with a lower score, the video
\* is in the destination after the step, under its final path.
C38_UpgradeIsDelivered ==
    [][LET v == Head(video_files) IN
       (/\ DecidesEpisode
        /\ SameKeyAndEdition(dest, v) # {}
        /\ \A p \in SameKeyAndEdition(dest, v) :
              get_quality_score(p.name, dest[p]) < get_quality_score(v.stem, v.content))
       => (/\ FinalPath("series", v) \in DOMAIN dest'
           /\ dest'[FinalPath("series", v)] = v.content)]_vars

\* C39: when the series flow decides on a video and no destination file
\* of exactly its episode key and edition scores as much as the video, the
\* video is not skipped: it is mapped to its final path.
C39_OnlyTheExactKeyCounts ==
    [][LET v == Head(video_files) IN
       (/\ DecidesEpisode
        /\ \A p \in SameKeyAndEdition(dest, v) :
              get_quality_score(p.name, dest[p]) < get_quality_score(v.stem, v.content))
       => v \in DOMAIN final_media_paths']_vars

-----------------------------------------------------------------------------
(* parse_filename (SpecParse).                                              *)

\* A 4-digit year in 1980..2099 standing as a token of the name at i.
YearToken(name, i) ==
    /\ IsDigits(name[i]) /\ DigitRuns[name[i]].len = 4
    /\ DigitRuns[name[i]].value \in 1980..2099
    /\ ~IsWordAtom(At(name, i - 1)) /\ ~IsWordAtom(At(name, i + 1))
YearTokens(name) == { i \in 1..Len(name) : YearToken(name, i) }

\* An S followed by digits, anywhere in the name.
SDigits(name) == { i \in 1..Len(name) : name[i] \in SLetters /\ IsDigits(At(name, i + 1)) }

\* A season token S<n> at i: it starts the name or follows a separator and
\* ends the name or is followed by a separator or by E<n>.
SeasonToken(name, i) ==
    /\ name[i] \in SLetters /\ ShortRun(At(name, i + 1))
    /\ ~IsWordAtom(At(name, i - 1))
    /\ \/ ~IsWordAtom(At(name, i + 2))
       \/ At(name, i + 2) \in ELetters /\ ShortRun(At(name, i + 3))

\* What precedes position i, as a title.
TitleBefore(name, i) == TitleText(CleanName(SubSeq(name, 1, i - 1)))

\* C32: a name with one year token and no S followed by digits gives that
\* year and the text before it as the title; a name with one year token and
\* a season token ahead of every other S followed by digits gives the text
\* before whichever of the two starts first (the separator in front of the
\* season token may go with the token).
C32_YearAndTitle ==
    (fpc = "returned" /\ Cardinality(YearTokens(fname)) = 1) =>
        LET y == CHOOSE i \in YearTokens(fname) : TRUE IN
        /\ SDigits(fname) = {} =>
              (/\ fresult.year = DigitRuns[fname[y]].value
               /\ fresult.title = TitleBefore(fname, y))
        /\ \A t \in SDigits(fname) :
              (SeasonToken(fname, t) /\ \A u \in SDigits(fname) : t <= u) =>
                  (/\ fresult.year = DigitRuns[fname[y]].value
                   /\ fresult.title \in
                         IF y < t THEN { TitleBefore(fname, y) }
                         ELSE { TitleBefore(fname, t), TitleBefore(fname, t - 1) })

\* C33: a name whose first S followed by digits is a token S<n>E<n> gives
\* n and n as season and start episode, and as end episode the number of an
\* E<n> that follows at once, none when neither an E nor a separator
\* follows; a name with no S<n>, separator or not, E<n> whose first S
\* followed by digits is a token S<n> gives the season and no episodes.
C33_SeasonAndEpisodes ==
    fpc = "returned" =>
        \A t \in SDigits(fname) :
            (SeasonToken(fname, t) /\ \A u \in SDigits(fname) : t <= u) =>
                /\ (At(fname, t + 2) \in ELetters /\ ShortRun(At(fname, t + 3))) =>
                      /\ fresult.season = DigitRuns[fname[t + 1]].value
                      /\ fresult.start_episode = DigitRuns[fname[t + 3]].value
                      /\ (At(fname, t + 4) \in ELetters /\ ShortRun(At(fname, t + 5))) =>
                             fresult.end_episode = DigitRuns[fname[t + 5]].value
                      /\ At(fname, t + 4) \notin ELetters \cup SepChars =>
                             fresult.end_episode = NoNum
                /\ (\A u \in SDigits(fname) :
                        /\ At(fname, u + 2) \notin ELetters
                        /\ ~(At(fname, u + 2) \in SepChars /\ At(fname, u + 3) \in ELetters)) =>
                      /\ fresult.season = DigitRuns[fname[t + 1]].value
                      /\ fresult.start_episode = NoNum
                      /\ fresult.end_episode = NoNum

====
